---- MODULE Spec2Model ----
(***************************************************************************)
(* A model of the accessibility engine of pysal/access: the weighted       *)
(* catchment primitive and the floating-catchment-area measures of         *)
(* src/access/fca.py, the facade methods of src/access/access.py that      *)
(* store and normalise their results, and the RAAM solver of               *)
(* src/access/raam.py.                                                     *)
(*                                                                         *)
(* Numbers are exact: a value is a pair <<n, d>> with d >= 0, the rational *)
(* n/d in lowest terms when d > 0, +infinity <<1,0>>, -infinity <<-1,0>>   *)
(* and NaN <<0,0>>, with the IEEE rules numpy and pandas follow for        *)
(* division by zero, 0 * infinity and the propagation of NaN.  Rounding    *)
(* error of binary floating point is not modelled.                         *)
(***************************************************************************)
EXTENDS Integers, Sequences, FiniteSets, TLC

(***************************************************************************)
(* Bounds of the model.                                                    *)
(***************************************************************************)
MaxDemand == 2
MaxSupply == 1

(* Python's None, for an optional cutoff (<<c>> when given) and for an     *)
(* absent weight function.                                                 *)
NoMaxCost == <<>>
NoWeight == [kind |-> "none"]

(***************************************************************************)
(* Extended rational arithmetic (Python / numpy float semantics).          *)
(***************************************************************************)
Abs(x) == IF x < 0 THEN -x ELSE x
Sign(x) == IF x < 0 THEN -1 ELSE IF x > 0 THEN 1 ELSE 0

RECURSIVE Gcd(_, _)
Gcd(a, b) == IF b = 0 THEN a ELSE Gcd(b, a % b)

Norm(n, d) ==
    IF d = 0 THEN <<Sign(n), 0>>
    ELSE LET g == Gcd(Abs(n), Abs(d))
             s == IF d < 0 THEN -1 ELSE 1
         IN  <<(s * n) \div g, (s * d) \div g>>

NaN == <<0, 0>>
Inf == <<1, 0>>
Zero == <<0, 1>>
One == <<1, 1>>
Q(n) == <<n, 1>>
Frac(n, d) == Norm(n, d)

IsNaN(a) == a[1] = 0 /\ a[2] = 0
IsFinite(a) == a[2] > 0

QAdd(a, b) ==
    IF IsNaN(a) \/ IsNaN(b) THEN NaN
    ELSE IF a[2] = 0 /\ b[2] = 0 THEN (IF a[1] = b[1] THEN a ELSE NaN)
    ELSE IF a[2] = 0 THEN a
    ELSE IF b[2] = 0 THEN b
    ELSE LET g == Gcd(a[2], b[2])
         IN  Norm(a[1] * (b[2] \div g) + b[1] * (a[2] \div g), (a[2] \div g) * b[2])

QNeg(a) == <<-a[1], a[2]>>
QSub(a, b) == QAdd(a, QNeg(b))
QMul(a, b) ==
    IF a[2] = 0 \/ b[2] = 0 THEN <<Sign(a[1]) * Sign(b[1]), 0>>
    ELSE LET g1 == Gcd(Abs(a[1]), b[2])
             g2 == Gcd(Abs(b[1]), a[2])
         IN  Norm((a[1] \div g1) * (b[1] \div g2), (a[2] \div g2) * (b[2] \div g1))

QDiv(a, b) ==
    IF IsNaN(a) \/ IsNaN(b) THEN NaN
    ELSE IF b[2] = 0 THEN (IF a[2] = 0 THEN NaN ELSE Zero)
    ELSE IF b[1] = 0 THEN <<Sign(a[1]), 0>>
    ELSE IF a[2] = 0 THEN <<a[1] * Sign(b[1]), 0>>
    ELSE QMul(a, <<b[2] * Sign(b[1]), Abs(b[1])>>)

(* n1/d1 < n2/d2 for d1, d2 > 0, by comparing the whole parts and then the  *)
(* remainders, so that no product can leave the range of the integers.     *)
RECURSIVE FracLt(_, _, _, _)
FracLt(n1, d1, n2, d2) ==
    LET q1 == n1 \div d1
        q2 == n2 \div d2
        r1 == n1 - q1 * d1
        r2 == n2 - q2 * d2
    IN  IF q1 # q2 THEN q1 < q2
        ELSE IF r2 = 0 THEN FALSE
        ELSE IF r1 = 0 THEN TRUE
        ELSE FracLt(d2, r2, d1, r1)

QLt(a, b) ==
    IF IsNaN(a) \/ IsNaN(b) THEN FALSE
    ELSE IF a = b THEN FALSE
    ELSE IF a[2] = 0 THEN a[1] < 0
    ELSE IF b[2] = 0 THEN b[1] > 0
    ELSE FracLt(a[1], a[2], b[1], b[2])

QLe(a, b) == ~IsNaN(a) /\ ~IsNaN(b) /\ ~QLt(b, a)
QMin(a, b) == IF IsNaN(a) THEN a ELSE IF IsNaN(b) THEN b ELSE IF QLt(b, a) THEN b ELSE a
QMax(a, b) == IF IsNaN(a) THEN a ELSE IF IsNaN(b) THEN b ELSE IF QLt(a, b) THEN b ELSE a

(* pandas' Series.sum / groupby(...).sum(): NaN entries are skipped, the    *)
(* sum of nothing is 0.                                                     *)
RECURSIVE SumSkipNa(_)
SumSkipNa(f) ==
    IF DOMAIN f = {} THEN Zero
    ELSE LET r == CHOOSE x \in DOMAIN f : TRUE
             rest == [x \in DOMAIN f \ {r} |-> f[x]]
         IN  IF IsNaN(f[r]) THEN SumSkipNa(rest) ELSE QAdd(f[r], SumSkipNa(rest))

(* Python's built-in sum and plain arithmetic: NaN propagates.              *)
RECURSIVE SumPlain(_)
SumPlain(f) ==
    IF DOMAIN f = {} THEN Zero
    ELSE LET r == CHOOSE x \in DOMAIN f : TRUE
             rest == [x \in DOMAIN f \ {r} |-> f[x]]
         IN  QAdd(f[r], SumPlain(rest))

(***************************************************************************)
(* Weight functions (src/access/weights.py).  A weight function is a       *)
(* tagged value: None, a step function given by its dictionary (a function *)
(* from thresholds to weights), or the gravity function (x / scale)^-1.    *)
(***************************************************************************)
(* A helper whose comparison is strict.                                    *)
StepWeightStrict(step_dict, x) ==
    LET hit == {k \in DOMAIN step_dict : x < k}
    IN  IF hit = {} THEN Zero
        ELSE step_dict[CHOOSE k \in hit : \A k2 \in hit : k <= k2]

(* The function weights.step_fn returns: the weight of the smallest        *)
(* threshold at or above x, 0 beyond the largest.                          *)
StepWeight(step_dict, x) ==
    LET hit == {k \in DOMAIN step_dict : x <= k}
    IN  IF hit = {} THEN Zero
        ELSE step_dict[CHOOSE k \in hit : \A k2 \in hit : k <= k2]

(* weights.step_fn's inner helper as written: the items in ascending order *)
(* of threshold, the first threshold at or above the input decides.        *)
RECURSIVE helper(_, _, _)
helper(step_dict, keys, key_to_test) ==
    IF keys = {} THEN Zero
    ELSE LET k == CHOOSE c \in keys : \A c2 \in keys : c <= c2
         IN  IF key_to_test <= k THEN step_dict[k]
             ELSE helper(step_dict, keys \ {k}, key_to_test)

(* A constructor that checks nothing.                                      *)
step_fn_unchecked(arg) ==
    [raised |-> "", fn |-> [kind |-> "step", step_dict |-> arg.items]]

(* weights.step_fn: the argument is a value of some Python type holding    *)
(* items; the type test, then the sign test on every weight (v < 0 is      *)
(* false for NaN), then the helper is returned.                            *)
step_fn(arg) ==
    IF arg.type # "dict" THEN [raised |-> "TypeError", fn |-> <<>>]
    ELSE IF \E k \in DOMAIN arg.items : QLt(arg.items[k], Zero)
         THEN [raised |-> "ValueError", fn |-> <<>>]
         ELSE [raised |-> "", fn |-> [kind |-> "step", step_dict |-> arg.items]]

(* weights.gaussian: the test on sigma, then the function                  *)
(* x -> exp(-x * x / (2 * sigma ** 2)) is returned.                        *)
gaussian(sigma) ==
    IF sigma = 0 THEN [raised |-> "ValueError", fn |-> <<>>]
    ELSE [raised |-> "", fn |-> [kind |-> "gaussian", sigma |-> sigma]]

(* A weight that does not fall with the cost.                              *)
GravityWeightFlat(scale, x) == One

(* weights.gravity(scale, alpha = -1): (x / scale) ** -1.                  *)
GravityWeight(scale, x) == QDiv(Q(scale), Q(x))

Weight(weight_fn, x) ==
    IF weight_fn.kind = "step" THEN StepWeight(weight_fn.step_dict, x)
    ELSE GravityWeight(weight_fn.scale, x)

(* The default dictionaries of the facade's enhanced two-stage and          *)
(* three-stage methods.                                                     *)
E2sfcaDefaultWeight ==
    [kind |-> "step",
     step_dict |-> (10 :> One) @@ (20 :> Frac(68, 100)) @@ (30 :> Frac(22, 100))]
ThreeStageDefaultWeight ==
    [kind |-> "step",
     step_dict |-> (10 :> Frac(962, 1000)) @@ (20 :> Frac(704, 1000))
                   @@ (30 :> Frac(377, 1000)) @@ (60 :> Frac(42, 1000))]

(***************************************************************************)
(* Tables.  A location table (demand_df, supply_df, an Rl frame) is a      *)
(* function from location ids to values; a cost table is a set of rows     *)
(* [origin, dest, cost] with at most one row per (origin, dest).           *)
(***************************************************************************)
IntTable(t) == [k \in DOMAIN t |-> Q(t[k])]

(* A cutoff that keeps an edge whose cost equals max_cost.                 *)
InclusiveCutoff(cost, max_cost) == cost <= max_cost

(* fca.weighted_catchment: merge, cutoff, weighting, groupby-sum.          *)
StrictCutoff(cost, max_cost) == cost < max_cost

weighted_catchment(loc_df, cost_df, max_cost, cost_source, cost_dest, weight_fn, three_stage_weight) ==
    LET merged == {r \in cost_df : r[cost_source] \in DOMAIN loc_df}
        temp == IF max_cost = NoMaxCost THEN merged
                ELSE {r \in merged : StrictCutoff(r.cost, max_cost[1])}
        value(r) ==
            IF weight_fn = NoWeight THEN loc_df[r[cost_source]]
            ELSE IF three_stage_weight
                 THEN QMul(QMul(loc_df[r[cost_source]], r.W3), r.G)
                 ELSE QMul(loc_df[r[cost_source]], Weight(weight_fn, r.cost))
        keys == {r[cost_dest] : r \in temp}
    IN  [k \in keys |->
            SumSkipNa([r \in {x \in temp : x[cost_dest] = k} |-> value(r)])]

(* The call as the caller writes it: loc_value names the magnitude column  *)
(* of loc_df, or is None (the default).  The merged frame has the columns  *)
(* of the cost table and of loc_df; temp[loc_value] (line 76) and          *)
(* groupby(...)[loc_value] (line 78) look the column up and raise KeyError *)
(* when the frame has no column of that name.                              *)
NoLocValue == <<>>
ValueColumn == <<"value">>
MergedColumns == {"origin", "dest", "cost", "geoid", "value"}
HasColumn(columns, key) == key # NoLocValue /\ key[1] \in columns
weighted_catchment_loc_value(loc_df, cost_df, max_cost, loc_value, weight_fn) ==
    IF HasColumn(MergedColumns, loc_value)
    THEN [raised |-> "",
          rs |-> weighted_catchment(IntTable(loc_df), cost_df, max_cost, "dest", "origin",
                                    weight_fn, FALSE)]
    ELSE [raised |-> "KeyError", rs |-> <<>>]

(* fca_ratio with the supply summed over the demand cost table.            *)
fca_ratio_one_cost_table(demand_df, supply_df, demand_cost_df, supply_cost_df, max_cost, weight_fn) ==
    LET total_demand_series ==
            weighted_catchment(IntTable(demand_df), demand_cost_df, max_cost,
                               "dest", "origin", weight_fn, FALSE)
        total_supply_series ==
            weighted_catchment(IntTable(supply_df), demand_cost_df, max_cost,
                               "dest", "origin", weight_fn, FALSE)
    IN  [k \in DOMAIN total_demand_series |->
            QDiv(IF k \in DOMAIN total_supply_series THEN total_supply_series[k] ELSE Zero,
                 total_demand_series[k])]

(* A discrepancy test against the origins of the supply cost table.        *)
fca_ratio_warnings_by_origin(demand_df, supply_cost_df) ==
    IF DOMAIN demand_df \ {r.origin : r \in supply_cost_df} # {}
    THEN {"some tracts may be unaccounted for in supply_cost"}
    ELSE {}

(* fca_ratio, lines 153-161: a warning when some demand location is not a  *)
(* destination of the supply cost table.  The call goes on either way.     *)
fca_ratio_warnings(demand_df, supply_cost_df) ==
    IF DOMAIN demand_df \ {r.dest : r \in supply_cost_df} # {}
    THEN {"some tracts may be unaccounted for in supply_cost"}
    ELSE {}

(* fca_ratio with an inner join of the two catchment sums.                 *)
fca_ratio_inner_join(demand_df, supply_df, demand_cost_df, supply_cost_df, max_cost, weight_fn) ==
    LET total_demand_series ==
            weighted_catchment(IntTable(demand_df), demand_cost_df, max_cost,
                               "dest", "origin", weight_fn, FALSE)
        total_supply_series ==
            weighted_catchment(IntTable(supply_df), supply_cost_df, max_cost,
                               "dest", "origin", weight_fn, FALSE)
    IN  [k \in (DOMAIN total_demand_series) \cap (DOMAIN total_supply_series) |->
            QDiv(total_supply_series[k], total_demand_series[k])]

(* fca.fca_ratio: two catchment sums, right join on the demand sums,       *)
(* fillna(0), supply / demand.                                             *)
fca_ratio(demand_df, supply_df, demand_cost_df, supply_cost_df, max_cost, weight_fn) ==
    LET total_demand_series ==
            weighted_catchment(IntTable(demand_df), demand_cost_df, max_cost,
                               "dest", "origin", weight_fn, FALSE)
        total_supply_series ==
            weighted_catchment(IntTable(supply_df), supply_cost_df, max_cost,
                               "dest", "origin", weight_fn, FALSE)
        FillNa(v) == IF IsNaN(v) THEN Zero ELSE v
        temp == [k \in DOMAIN total_demand_series |->
                    [supply |-> IF k \in DOMAIN total_supply_series
                                THEN FillNa(total_supply_series[k]) ELSE Zero,
                     demand |-> FillNa(total_demand_series[k])]]
    IN  [k \in DOMAIN temp |-> QDiv(temp[k].supply, temp[k].demand)]

(* The part shared by two_stage_fca and three_stage_fca: the ratio Rl of   *)
(* supply to aggregated demand at each destination of the demand sums.     *)
SupplyToTotalDemand(supply_df, total_demand_series) ==
    [k \in DOMAIN total_demand_series |->
        QDiv(IF k \in DOMAIN supply_df THEN Q(supply_df[k]) ELSE Zero,
             total_demand_series[k])]

(* two_stage_fca whose second pass sums the ratios unweighted.             *)
two_stage_fca_unweighted_return(demand_df, supply_df, cost_df, max_cost, weight_fn) ==
    LET total_demand_series ==
            weighted_catchment(IntTable(demand_df), cost_df, max_cost,
                               "origin", "dest", weight_fn, FALSE)
    IN  weighted_catchment(SupplyToTotalDemand(supply_df, total_demand_series),
                           cost_df, max_cost, "dest", "origin", NoWeight, FALSE)

two_stage_fca(demand_df, supply_df, cost_df, max_cost, weight_fn) ==
    LET total_demand_series ==
            weighted_catchment(IntTable(demand_df), cost_df, max_cost,
                               "origin", "dest", weight_fn, FALSE)
        supply_to_total_demand_frame ==
            SupplyToTotalDemand(supply_df, total_demand_series)
    IN  weighted_catchment(supply_to_total_demand_frame, cost_df, max_cost,
                           "dest", "origin", weight_fn, FALSE)

(* three_stage_fca, line 377: cost_df["W3"] = ... assigns a column to the  *)
(* frame the caller passed.  The merge of line 385 binds the local name    *)
(* cost_df to a new frame, so that W3sum, G and the drop of line 432 act   *)
(* on that new frame only.                                                 *)
AssignW3(cost_df, weight_fn) ==
    {[origin |-> r.origin, dest |-> r.dest, cost |-> r.cost,
      W3 |-> Weight(weight_fn, r.cost)] : r \in cost_df}

(* Preference weights left unnormalised: G = W3.                           *)
PreferenceWeightsUnnormalized(cost_df, weight_fn) ==
    {[origin |-> r.origin, dest |-> r.dest, cost |-> r.cost,
      W3 |-> Weight(weight_fn, r.cost), W3sum |-> One,
      G |-> Weight(weight_fn, r.cost)] : r \in cost_df}

(* The preference weight of three_stage_fca: columns W3, W3sum and G added *)
(* to every row of the cost table.                                         *)
PreferenceWeights(cost_df, weight_fn) ==
    LET W3(r) == Weight(weight_fn, r.cost)
        W3sum(o) == SumSkipNa([r \in {x \in cost_df : x.origin = o} |-> W3(r)])
    IN  {[origin |-> r.origin, dest |-> r.dest, cost |-> r.cost,
          W3 |-> W3(r), W3sum |-> W3sum(r.origin),
          G |-> QDiv(W3(r), W3sum(r.origin))] : r \in cost_df}

(* The three-stage passes with the preference weight applied in the first  *)
(* pass only.                                                              *)
ThreeStagePassesPlainReturn(demand_df, supply_df, cost_G, max_cost, weight_fn) ==
    LET total_demand_series ==
            weighted_catchment(IntTable(demand_df), cost_G, max_cost,
                               "origin", "dest", weight_fn, TRUE)
    IN  weighted_catchment(SupplyToTotalDemand(supply_df, total_demand_series),
                           cost_G, max_cost, "dest", "origin", weight_fn, FALSE)

(* The two aggregation passes of three_stage_fca over the cost table that  *)
(* carries the preference weights.                                         *)
ThreeStagePasses(demand_df, supply_df, cost_G, max_cost, weight_fn) ==
    LET total_demand_series ==
            weighted_catchment(IntTable(demand_df), cost_G, max_cost,
                               "origin", "dest", weight_fn, TRUE)
        supply_to_total_demand_frame ==
            SupplyToTotalDemand(supply_df, total_demand_series)
    IN  weighted_catchment(supply_to_total_demand_frame, cost_G, max_cost,
                           "dest", "origin", weight_fn, TRUE)

three_stage_fca(demand_df, supply_df, cost_df, max_cost, weight_fn) ==
    ThreeStagePasses(demand_df, supply_df, PreferenceWeights(cost_df, weight_fn),
                     max_cost, weight_fn)

(***************************************************************************)
(* RAAM (src/access/raam.py).  Matrices are functions over pairs           *)
(* <<origin, destination>> of location ids; demand_locations and           *)
(* supply_locations are taken in ascending order of id, so that "the first *)
(* index" of argmin and argmax is the smallest id.  The assignment matrix  *)
(* holds whole numbers (every transfer is cast to int).                    *)
(***************************************************************************)
DefaultTau == 60
DefaultLimitInitial == 20
DefaultHalfLife == 50

(* rho = None: the argument is absent (<<q>> when the caller gives q).      *)
NoRho == <<>>

(* np.ma.masked: the entry of a masked array that holds no value.          *)
masked == <<0, -1>>
IsMasked(a) == a[2] < 0
Filled(a, fill_value) == IF IsMasked(a) THEN fill_value ELSE a
NegInf == <<-1, 0>>

(* ndarray.astype(int) of a finite value: truncation toward zero.          *)
Trunc(a) == IF a[1] >= 0 THEN a[1] \div a[2] ELSE -((-a[1]) \div a[2])

(* np.round: to the nearest whole number, halves to the even one.          *)
RoundHalfEven(a) ==
    LET f == a[1] \div a[2]
        r == a[1] - f * a[2]
    IN  IF 2 * r < a[2] THEN f
        ELSE IF 2 * r > a[2] THEN f + 1
        ELSE IF f % 2 = 0 THEN f ELSE f + 1

RECURSIVE IntSum(_)
IntSum(f) ==
    IF DOMAIN f = {} THEN 0
    ELSE LET x == CHOOSE y \in DOMAIN f : TRUE
         IN  f[x] + IntSum([y \in DOMAIN f \ {x} |-> f[y]])

(* argmin / argmax along a row: the first index of the least / greatest    *)
(* value.                                                                  *)
ArgMin(v, cols) ==
    CHOOSE j \in cols : \A k \in cols : QLt(v[j], v[k]) \/ (v[j] = v[k] /\ j <= k)
ArgMax(v, cols) ==
    CHOOSE j \in cols : \A k \in cols : QLt(v[k], v[j]) \/ (v[j] = v[k] /\ j <= k)

(* The filter left out: every row of the table is kept.                    *)
AllRows(df) == DOMAIN df

(* Lines 174-175: the rows of a location table with a positive value.      *)
PositiveRows(df) == {k \in DOMAIN df : df[k] > 0}

(* raam, up to the call of iterate_raam: the filters, the locations taking *)
(* part, the travel matrix cost / tau masked where the pivot has no edge,  *)
(* and the supply scaled by rho: the caller's value, or the ratio of total *)
(* demand to total supply when rho is None.                                *)
RaamInputs(demand_df, supply_df, cost_df, tau, rho) ==
    LET demand_pos == PositiveRows(demand_df)
        supply_pos == PositiveRows(supply_df)
        demand_locations == {r.origin : r \in cost_df} \cap demand_pos
        supply_locations == {r.dest : r \in cost_df} \cap supply_pos
        rho_used == IF rho = NoRho
                    THEN QDiv(Q(IntSum([o \in demand_pos |-> demand_df[o]])),
                              Q(IntSum([j \in supply_pos |-> supply_df[j]])))
                    ELSE rho[1]
        edge(o, j) == {r \in cost_df : r.origin = o /\ r.dest = j}
    IN  [demand_locations |-> demand_locations,
         supply_locations |-> supply_locations,
         travel_np |-> [p \in demand_locations \X supply_locations |->
                          IF edge(p[1], p[2]) = {} THEN masked
                          ELSE Frac((CHOOSE r \in edge(p[1], p[2]) : TRUE).cost, tau)],
         supply_np |-> [j \in supply_locations |-> QMul(Q(supply_df[j]), rho_used)],
         demand_np |-> [o \in demand_locations |-> demand_df[o]]]

(* iterate_raam, lines 17-19: all of an origin's demand on the destination *)
(* of least travel cost (index 0 when the whole row is masked).            *)
InitialAssignment(demand, supply, travel) ==
    [p \in DOMAIN travel |->
        IF p[2] = ArgMin([j \in DOMAIN supply |-> Filled(travel[p[1], j], Inf)],
                         DOMAIN supply)
        THEN demand[p[1]] ELSE 0]

(* A total cost without the congestion term.                              *)
TotalCostTravelOnly(assignment, demand, supply, travel) ==
    [p \in DOMAIN travel |-> travel[p]]

(* demand_at_supply / supply + travel.                                     *)
TotalCost(assignment, demand, supply, travel) ==
    [p \in DOMAIN travel |->
        IF IsMasked(travel[p]) THEN masked
        ELSE QAdd(QDiv(Q(IntSum([o \in DOMAIN demand |-> assignment[o, p[2]]])),
                       supply[p[2]]),
                  travel[p])]

(* 0.5 ** (k / 50) for k = 1 .. 4, in thousandths.                         *)
HalfPowerPerMille == <<986, 973, 959, 946>>

(* 0.5 ** (i / half_life): exact for i a multiple of half_life, to three   *)
(* decimals for the first cycles of the default half-life.                 *)
HalfPower(i, half_life) ==
    IF i % half_life = 0 THEN Frac(1, 2 ^ (i \div half_life))
    ELSE Frac(HalfPowerPerMille[i % half_life], 1000 * 2 ^ (i \div half_life))

(* A step that never decays.                                               *)
StepSizeInitial(i, p) == p.initial_step

(* initial_step * 0.5 ** (i / half_life), floored at min_step; rounded to  *)
(* a whole number first when initial_step is not a float.                  *)
StepSize(i, p) ==
    LET decayed == QMul(p.initial_step, HalfPower(i, p.half_life))
        step_size == IF p.is_float THEN decayed ELSE Q(RoundHalfEven(decayed))
    IN  IF QLt(step_size, p.min_step) THEN p.min_step ELSE step_size

(* The anti-flood rescaling: the transfers into a destination are divided  *)
(* by max(inflow / supply, 1) and rounded.                                 *)
ScaleFactor(delta, min_locations, supply) ==
    [j \in DOMAIN supply |->
        QMax(QDiv(Q(IntSum([o \in {x \in DOMAIN delta : min_locations[x] = j} |->
                               delta[o]])),
                  supply[j]),
             One)]

(* A transfer that is added at min_j and never taken from max_j.           *)
TransferWithoutRemoval(assignment, min_locations, max_locations, delta) ==
    [p \in DOMAIN assignment |->
        assignment[p] + (IF p[2] = min_locations[p[1]] THEN delta[p[1]] ELSE 0)]

(* Lines 83-84: delta is added at min_j and subtracted at max_j.           *)
Transfer(assignment, min_locations, max_locations, delta) ==
    [p \in DOMAIN assignment |->
        assignment[p] + (IF p[2] = min_locations[p[1]] THEN delta[p[1]] ELSE 0)
                      - (IF p[2] = max_locations[p[1]] THEN delta[p[1]] ELSE 0)]

(* An array or a record of locals, computed once and then named: Array     *)
(* makes a function explicit, With binds a value to the parameter of Op.   *)
Array(f) == f @@ <<>>
With(v, Op(_)) == CHOOSE r \in {Op(x) : x \in {v}} : TRUE

(* Lines 23-28: the costs and, for each origin, min_j and max_j.           *)
CycleCosts(assignment, demand, supply, travel) ==
    [demand_at_supply |->
        Array([j \in DOMAIN supply |->
                  IntSum([o \in DOMAIN demand |-> assignment[o, j]])]),
     total_cost |-> Array(TotalCost(assignment, demand, supply, travel))]

CycleLocations(c, assignment, demand, supply) ==
    [max_locations |->
        Array([o \in DOMAIN demand |->
            ArgMax([j \in DOMAIN supply |->
                        IF IsMasked(c.total_cost[o, j]) \/ assignment[o, j] = 0
                        THEN NegInf ELSE c.total_cost[o, j]], DOMAIN supply)]),
     min_locations |->
        Array([o \in DOMAIN demand |->
            ArgMin([j \in DOMAIN supply |-> Filled(c.total_cost[o, j], Inf)],
                   DOMAIN supply)])]

(* The equalizing transfer without the cap of line 50.                     *)
DeltaEqualizingUncapped(c, assignment, supply, travel, o) ==
    LET mn == c.min_locations[o]
        mx == c.max_locations[o]
    IN  IF mx = mn THEN Zero
        ELSE QMul(QDiv(QMul(supply[mn], supply[mx]), QAdd(supply[mn], supply[mx])),
                  QSub(c.total_cost[o, mx], c.total_cost[o, mn]))

(* Lines 30-51: the transfer that would equalize the costs at min_j and    *)
(* max_j, at most what the origin holds at max_j, 0 where min_j = max_j.   *)
DeltaEqualizing(c, assignment, supply, travel, o) ==
    LET mn == c.min_locations[o]
        mx == c.max_locations[o]
        slmin == supply[mn]
        slmax == supply[mx]
        drlmin == assignment[o, mn]
        drlmax == assignment[o, mx]
        dr == drlmin + drlmax
        drotherlmin == c.demand_at_supply[mn] - drlmin
        drotherlmax == c.demand_at_supply[mx] - drlmax
        drlmin_new ==
            QMul(QDiv(QMul(slmin, slmax), QAdd(slmin, slmax)),
                 QSub(QAdd(QSub(travel[o, mx], travel[o, mn]),
                           QDiv(Q(dr + drotherlmax), slmax)),
                      QDiv(Q(drotherlmin), slmin)))
    IN  IF mx = mn THEN Zero
        ELSE QMin(QSub(drlmin_new, Q(drlmin)), Q(drlmax))

(* Lines 53-66: the cap by the step size and the cast to int.              *)
CycleStep(c, assignment, demand, supply, travel, i, p) ==
    [delta_equalizing |->
        Array([o \in DOMAIN demand |-> DeltaEqualizing(c, assignment, supply, travel, o)]),
     step_size |-> StepSize(i, p),
     delta_capped |->
        Array([o \in DOMAIN demand |->
            Trunc(QMin(DeltaEqualizing(c, assignment, supply, travel, o),
                       IF p.is_float THEN QMul(StepSize(i, p), Q(demand[o]))
                       ELSE StepSize(i, p)))])]

(* A rescaling applied in every cycle.                                     *)
CycleAntiFloodAlways(c, demand, i, p) ==
    [delta |->
        Array([o \in DOMAIN demand |->
            RoundHalfEven(QDiv(Q(c.delta_capped[o]),
                               c.scale_factor[c.min_locations[o]]))])]

(* Lines 71-81: the anti-flood rescaling during the first limit_initial    *)
(* cycles.                                                                 *)
CycleAntiFlood(c, demand, i, p) ==
    [delta |->
        IF i < p.limit_initial
        THEN Array([o \in DOMAIN demand |->
                RoundHalfEven(QDiv(Q(c.delta_capped[o]),
                                   c.scale_factor[c.min_locations[o]]))])
        ELSE c.delta_capped]

(* One pass of the loop body of iterate_raam (lines 23-86): the new        *)
(* assignment, the locals, and whether the assert holds.                   *)
Cycle(assignment, demand, supply, travel, i, p) ==
    With(CycleCosts(assignment, demand, supply, travel), LAMBDA c1 :
    With(c1 @@ CycleLocations(c1, assignment, demand, supply), LAMBDA c2 :
    With(c2 @@ CycleStep(c2, assignment, demand, supply, travel, i, p), LAMBDA c3 :
    With(c3 @@ [scale_factor |->
                    Array(ScaleFactor(c3.delta_capped, c3.min_locations, supply))],
         LAMBDA c4 :
    With(c4 @@ CycleAntiFlood(c4, demand, i, p), LAMBDA c5 :
    With(c5 @@ [assignment |->
                    Array(Transfer(assignment, c5.min_locations, c5.max_locations,
                                   c5.delta))],
         LAMBDA c6 :
         c6 @@ [masked_read |->
                    \E o \in DOMAIN demand :
                        /\ c6.max_locations[o] # c6.min_locations[o]
                        /\ \/ IsMasked(travel[o, c6.min_locations[o]])
                           \/ IsMasked(travel[o, c6.max_locations[o]]),
                assert_ok |->
                    \A o \in DOMAIN demand :
                        IntSum([j \in DOMAIN supply |-> c6.assignment[o, j]])
                            = demand[o]]))))))

(* Line 99: (total_cost * assignment).sum(axis=1) / assignment.sum(axis=1), *)
(* masked for a row that is masked throughout.                              *)
RaamCost(total_cost, assignment, orig, dest) ==
    [o \in orig |->
        LET open == {j \in dest : ~IsMasked(total_cost[o, j])}
        IN  IF open = {} THEN masked
            ELSE QDiv(SumPlain([j \in open |-> QMul(total_cost[o, j], Q(assignment[o, j]))]),
                      Q(IntSum([j \in dest |-> assignment[o, j]])))]

(* pd.Series(data=raam_cost): a masked entry is stored as NaN.             *)
RaamSeries(raam_cost) == [o \in DOMAIN raam_cost |-> Filled(raam_cost[o], NaN)]

(* A loop that makes one pass more than max_cycles.                        *)
InRangeInclusive(i, max_cycles) == i <= max_cycles

(* Line 21, for i in range(max_cycles): whether pass i is made.            *)
InRange(i, max_cycles) == i < max_cycles

(* iterate_raam from cycle i on, and raam as a whole: the series returned, *)
(* or the exception raised.                                                *)
RECURSIVE IterateFrom(_, _, _, _, _, _, _)
IterateFrom(assignment, total_cost, demand, supply, travel, i, p) ==
    IF ~InRange(i, p.max_cycles)
    THEN [raised |-> "", rs |-> RaamSeries(RaamCost(total_cost, assignment,
                                                    DOMAIN demand, DOMAIN supply))]
    ELSE With(Cycle(assignment, demand, supply, travel, i, p), LAMBDA c :
            IF ~c.assert_ok THEN [raised |-> "AssertionError", rs |-> <<>>]
            ELSE IterateFrom(c.assignment, c.total_cost, demand, supply, travel, i + 1, p))

raam(demand_df, supply_df, cost_df, p) ==
    With(RaamInputs(demand_df, supply_df, cost_df, p.tau, p.rho), LAMBDA inp :
        IF inp.supply_locations = {} THEN [raised |-> "ValueError", rs |-> <<>>]
        ELSE IF ~InRange(0, p.max_cycles)
        THEN [raised |-> "UnboundLocalError", rs |-> <<>>]
        ELSE With(Array(InitialAssignment(inp.demand_np, inp.supply_np, inp.travel_np)),
                  LAMBDA initial :
                  IterateFrom(initial, <<>>, inp.demand_np, inp.supply_np,
                              inp.travel_np, 0, p)))

(***************************************************************************)
(* The facade (src/access/access.py) and its state.                        *)
(***************************************************************************)
VARIABLES
    demand_df,          \* Access.demand_df: location id -> demand
    supply_df,          \* Access.supply_df: location id -> supply
    cost_df,            \* Access.cost_df: rows [origin, dest, cost]
    neighbor_cost_df,   \* Access.neighbor_cost_df
    access_df,          \* Access.access_df: column name -> (location id -> value)
    series,             \* the series the engine function returned last
    cost_G,             \* three_stage_fca's local cost table, with W3, W3sum and G
    ret,                \* what the facade method returned last
    call,               \* the call made (method and arguments)
    pc,                 \* where the raam call stands: idle, loop, done, raised
    raised,             \* the exception the raam call raised, "" for none
    demand_np,          \* raam's demand vector
    supply_np,          \* raam's supply vector, scaled by rho
    travel_np,          \* raam's travel matrix
    cycle_i,            \* iterate_raam's loop variable i
    assignment,         \* iterate_raam's assignment matrix
    total_cost,         \* iterate_raam's total_cost, as last computed
    locals,             \* the other locals of the last pass of the loop body
    cost_names,         \* Access.cost_names: the registered cost column names
    default_cost,       \* Access._default_cost, <<>> while the attribute is not set
    neighbor_cost_names,    \* Access.neighbor_cost_names
    neighbor_default_cost,  \* Access._neighbor_default_cost, <<>> while not set
    supply_value_provided,  \* Access.supply_value_provided
    calls,              \* the number of facade calls made on the object
    warned              \* the messages passed to warnings.warn so far

raam_vars == <<pc, raised, demand_np, supply_np, travel_np, cycle_i, assignment,
               total_cost, locals>>
names_vars == <<cost_names, default_cost, neighbor_cost_names, neighbor_default_cost,
               supply_value_provided, calls>>
facade_vars == <<names_vars, warned>>
vars == <<demand_df, supply_df, cost_df, neighbor_cost_df, access_df, series, cost_G,
          ret, call, raam_vars, facade_vars>>

Locs == {1, 2}
CostVals == {20, 40}

Tables(idx, vals) == UNION {[S -> vals] : S \in idx}
CostRows(t) == {[origin |-> p[1], dest |-> p[2], cost |-> t[p]] : p \in DOMAIN t}
(* The cost tables drawn: any set of cross edges at any cost, and a        *)
(* self-edge of location 1, when present, at the smallest cost.            *)
CostTables ==
    {CostRows(t) : t \in {u \in Tables(SUBSET (Locs \X Locs), CostVals) :
                              \A p \in DOMAIN u : p[1] = p[2] => p[1] = 1 /\ u[p] = 20}}
SwapOD(rows) == {[origin |-> r.dest, dest |-> r.origin, cost |-> r.cost] : r \in rows}

(* Cutoffs a call may pass: none, 0, and the largest cost of the table.    *)
MaxCostArgs == {NoMaxCost, <<0>>, <<40>>}
ShortStep == [kind |-> "step", step_dict |-> (20 :> One)]
Gravity == [kind |-> "gravity", scale |-> 1]

NoCall == [method |-> "none"]

(* Access.__init__: access_df starts as the demand column alone.           *)
InitFacade ==
    /\ access_df = [c \in {"demand"} |-> IntTable(demand_df)]
    /\ series = <<>>
    /\ cost_G = {}
    /\ ret = <<>>
    /\ call = NoCall
    /\ cost_names = <<"cost">>
    /\ default_cost = <<"cost">>
    /\ supply_value_provided = TRUE
    /\ calls = 0
    /\ warned = {}

(* Access.__init__, lines 262-286: the neighbour cost table was given with *)
(* neighbor_cost_name = "cost", or was not given.                          *)
NeighborCostGiven ==
    /\ neighbor_cost_names = <<"cost">>
    /\ neighbor_default_cost = <<"cost">>
NeighborCostNotGiven ==
    /\ neighbor_cost_names = <<>>
    /\ neighbor_default_cost = <<>>

(* No raam call is in progress.                                            *)
RaamIdle ==
    /\ pc = "idle"
    /\ raised = ""
    /\ demand_np = <<>>
    /\ supply_np = <<>>
    /\ travel_np = <<>>
    /\ cycle_i = 0
    /\ assignment = <<>>
    /\ total_cost = <<>>
    /\ locals = <<>>

(* The facade is built over any demand, supply and cost tables; the       *)
(* neighbour cost table is the cost table itself (as in the tests) or, for *)
(* fully covered location tables, the cost table read backwards.           *)
Init ==
    /\ cost_df \in CostTables
    /\ \/ /\ demand_df \in Tables({Locs, {1}}, 0..MaxDemand)
          /\ supply_df \in Tables({Locs, {2}}, 0..MaxSupply)
          /\ neighbor_cost_df = cost_df
       \/ /\ demand_df \in Tables({Locs}, 0..MaxDemand)
          /\ supply_df \in Tables({Locs}, 0..MaxSupply)
          /\ neighbor_cost_df = SwapOD(cost_df)
          /\ neighbor_cost_df # cost_df
    /\ InitFacade
    /\ NeighborCostGiven
    /\ RaamIdle

(* A join that stores 0 for a location the series has no entry for.        *)
JoinColumnFillZero(df, name, s) ==
    [c \in (DOMAIN df) \cup {name} |->
        IF c = name
        THEN [i \in DOMAIN df["demand"] |-> IF i \in DOMAIN s THEN s[i] ELSE Zero]
        ELSE df[c]]

(* A join that keeps a column that is already there.                       *)
JoinColumnKeepFirst(df, name, s) ==
    [c \in (DOMAIN df) \cup {name} |->
        IF c \in DOMAIN df THEN df[c]
        ELSE [i \in DOMAIN df["demand"] |-> IF i \in DOMAIN s THEN s[i] ELSE NaN]]

(* DataFrame.join(series): a left join on the demand index; a location the *)
(* series has no entry for gets NaN.  A column of that name is dropped     *)
(* first.                                                                  *)
JoinColumn(df, name, s) ==
    [c \in (DOMAIN df) \cup {name} |->
        IF c = name
        THEN [i \in DOMAIN df["demand"] |-> IF i \in DOMAIN s THEN s[i] ELSE NaN]
        ELSE df[c]]

(* A normalisation by the unweighted sum of the column.                    *)
normalized_access_unweighted(df, columns) ==
    [c \in columns |->
        [i \in DOMAIN df["demand"] |-> QDiv(df[c][i], SumSkipNa(df[c]))]]

(* helpers.normalized_access: each column divided by its demand-weighted   *)
(* mean, the sums skipping NaN.                                            *)
normalized_access(df, columns) ==
    [c \in columns |->
        LET idx == DOMAIN df["demand"]
            mean_access_values ==
                QDiv(SumSkipNa([i \in idx |-> QMul(df[c][i], df["demand"][i])]),
                     SumSkipNa(df["demand"]))
        IN  [i \in idx |-> QDiv(df[c][i], mean_access_values)]]

(* The tail every facade measure shares: store the raw series under        *)
(* name_supply, return the normalised or the raw column.                   *)
StoreAndReturn(name, s, normalize) ==
    LET col == name \o "_value"
        df == JoinColumn(access_df, col, s)
    IN  /\ series' = s
        /\ access_df' = df
        /\ ret' = IF normalize THEN normalized_access(df, {col})
                  ELSE [c \in {col} |-> df[c]]

Ready == call = NoCall

FcaRatio(max_cost, normalize) ==
    /\ Ready
    /\ call' = [method |-> "fca_ratio", max_cost |-> max_cost,
                weight_fn |-> NoWeight, normalize |-> normalize]
    /\ StoreAndReturn("fca",
            fca_ratio(demand_df, supply_df, neighbor_cost_df, cost_df, max_cost, NoWeight),
            normalize)
    /\ warned' = warned \cup fca_ratio_warnings(demand_df, cost_df)
    /\ UNCHANGED <<names_vars, demand_df, supply_df, cost_df, neighbor_cost_df, cost_G,
                   raam_vars>>

(* Access.weighted_catchment: the supply within reach of each origin.      *)
WeightedCatchment(max_cost, weight_fn, normalize) ==
    /\ Ready
    /\ call' = [method |-> "catchment", max_cost |-> max_cost,
                weight_fn |-> weight_fn, normalize |-> normalize]
    /\ StoreAndReturn("catchment",
            weighted_catchment(IntTable(supply_df), cost_df, max_cost, "dest", "origin",
                               weight_fn, FALSE),
            normalize)
    /\ UNCHANGED <<facade_vars, demand_df, supply_df, cost_df, neighbor_cost_df, cost_G, raam_vars>>

(* fca.weighted_catchment called directly on the supply and cost tables,   *)
(* grouped by origin as the facade groups.                                 *)
EngineWeightedCatchment(max_cost, loc_value, weight_fn) ==
    /\ Ready
    /\ call' = [method |-> "fca.weighted_catchment", max_cost |-> max_cost,
                weight_fn |-> weight_fn, normalize |-> FALSE, loc_value |-> loc_value]
    /\ LET r == weighted_catchment_loc_value(supply_df, cost_df, max_cost, loc_value, weight_fn)
       IN  /\ raised' = r.raised
           /\ series' = r.rs
           /\ ret' = r.rs
    /\ UNCHANGED <<facade_vars, demand_df, supply_df, cost_df, neighbor_cost_df, access_df, cost_G>>
    /\ UNCHANGED <<pc, demand_np, supply_np, travel_np, cycle_i, assignment, total_cost, locals>>

TwoStageFca(name, max_cost, weight_fn, normalize) ==
    /\ Ready
    /\ call' = [method |-> name, max_cost |-> max_cost,
                weight_fn |-> weight_fn, normalize |-> normalize]
    /\ StoreAndReturn(name,
            two_stage_fca(demand_df, supply_df, cost_df, max_cost, weight_fn),
            normalize)
    /\ UNCHANGED <<facade_vars, demand_df, supply_df, cost_df, neighbor_cost_df, cost_G, raam_vars>>

EnhancedTwoStageFca(max_cost, weight_fn, normalize) ==
    TwoStageFca("e2sfca", max_cost,
                IF weight_fn = NoWeight THEN E2sfcaDefaultWeight ELSE weight_fn,
                normalize)

(* Access.three_stage_fca passes self.cost_df, the frame Access.__init__   *)
(* was given (line 241 keeps it without a copy), so the W3 column          *)
(* three_stage_fca assigns lands in the facade's cost table, and in the    *)
(* neighbour cost table where that is the same frame.                      *)
ThreeStageFca(max_cost, weight_fn, normalize) ==
    /\ Ready
    /\ LET wf == IF weight_fn = NoWeight THEN ThreeStageDefaultWeight ELSE weight_fn
       IN  /\ call' = [method |-> "3sfca", max_cost |-> max_cost,
                       weight_fn |-> wf, normalize |-> normalize]
           /\ StoreAndReturn("3sfca",
                   three_stage_fca(demand_df, supply_df, cost_df, max_cost, wf),
                   normalize)
           /\ cost_G' = PreferenceWeights(cost_df, wf)
           /\ cost_df' = AssignW3(cost_df, wf)
           /\ neighbor_cost_df' = IF neighbor_cost_df = cost_df THEN AssignW3(cost_df, wf)
                                  ELSE neighbor_cost_df
    /\ UNCHANGED <<facade_vars, demand_df, supply_df, raam_vars>>

Next ==
    \/ \E m \in MaxCostArgs, w \in {NoWeight, ShortStep}, n \in BOOLEAN :
            WeightedCatchment(m, w, n)
    \/ \E m \in MaxCostArgs, v \in {NoLocValue, ValueColumn}, w \in {NoWeight, ShortStep} :
            EngineWeightedCatchment(m, v, w)
    \/ \E m \in MaxCostArgs, n \in BOOLEAN : FcaRatio(m, n)
    \/ \E m \in MaxCostArgs, w \in {NoWeight, Gravity}, n \in BOOLEAN :
            TwoStageFca("2sfca", m, w, n)
    \/ \E m \in MaxCostArgs, n \in BOOLEAN : EnhancedTwoStageFca(m, NoWeight, n)
    \/ \E m \in MaxCostArgs, w \in {ShortStep, Gravity}, n \in BOOLEAN :
            ThreeStageFca(m, w, n)
    \/ \E n \in BOOLEAN : ThreeStageFca(<<0>>, NoWeight, n)

Spec == Init /\ [][Next]_vars

(***************************************************************************)
(* The raam call as a state machine: the call, the passes of the loop of   *)
(* iterate_raam, the return.                                               *)
(***************************************************************************)
MaxCycles == 2
RaamLocs == {1, 2}
RaamDemands == {0, 5, 10}
RaamSupplies == {0, 1, 2}
RaamCosts == {30, 60}

(* The two step regimes: the default float step, and a whole-number step.  *)
FloatStep == [is_float |-> TRUE, initial_step |-> Frac(1, 5), min_step |-> Frac(1, 200)]
IntStep == [is_float |-> FALSE, initial_step |-> Q(4), min_step |-> One]
RaamArgsWith(m, s, rho, half_life) ==
    [method |-> "raam", max_cycles |-> m, tau |-> DefaultTau, rho |-> rho,
     half_life |-> half_life, limit_initial |-> DefaultLimitInitial,
     is_float |-> s.is_float, initial_step |-> s.initial_step, min_step |-> s.min_step]

(* The calls drawn: rho left to its default in both step regimes for every *)
(* number of cycles, rho = 1 given in a call of one cycle, the             *)
(* whole-number step with the default half-life, and a run of one cycle    *)
(* more than limit_initial with rho = 1.                                   *)
RaamArgs ==
    {RaamArgsWith(m, s, NoRho, 1) : m \in 0..MaxCycles, s \in {FloatStep, IntStep}}
        \cup {RaamArgsWith(1, FloatStep, <<One>>, 1),
              RaamArgsWith(MaxCycles, IntStep, NoRho, DefaultHalfLife),
              RaamArgsWith(DefaultLimitInitial + 1, IntStep, <<One>>, 1)}

InitRaam ==
    /\ demand_df \in [RaamLocs -> RaamDemands]
    /\ supply_df \in [RaamLocs -> RaamSupplies]
    /\ cost_df \in {CostRows(t) : t \in Tables(SUBSET (RaamLocs \X RaamLocs), RaamCosts)}
    /\ neighbor_cost_df = cost_df
    /\ InitFacade
    /\ NeighborCostGiven
    /\ RaamIdle

(* raam with the arguments p up to the loop of iterate_raam; argmin over   *)
(* no destination raises.                                                  *)
RaamEnter(p) ==
    /\ \E inp \in {RaamInputs(demand_df, supply_df, cost_df, p.tau, p.rho)} :
           IF inp.supply_locations = {}
           THEN /\ pc' = "raised"
                /\ raised' = "ValueError"
                /\ demand_np' = <<>>
                /\ supply_np' = <<>>
                /\ travel_np' = <<>>
                /\ assignment' = <<>>
           ELSE /\ pc' = "loop"
                /\ raised' = ""
                /\ demand_np' = inp.demand_np
                /\ supply_np' = inp.supply_np
                /\ travel_np' = inp.travel_np
                /\ assignment' = InitialAssignment(inp.demand_np, inp.supply_np,
                                                   inp.travel_np)
    /\ cycle_i' = 0
    /\ total_cost' = <<>>
    /\ locals' = <<>>

RaamCall(p) ==
    /\ pc = "idle"
    /\ call' = p
    /\ RaamEnter(p)
    /\ UNCHANGED <<facade_vars, demand_df, supply_df, cost_df, neighbor_cost_df, access_df, series,
                   cost_G, ret>>

(* One pass of the loop body, ending at its assert.                        *)
RaamCycle ==
    /\ pc = "loop"
    /\ InRange(cycle_i, call.max_cycles)
    /\ \E c \in {Cycle(assignment, demand_np, supply_np, travel_np, cycle_i, call)} :
           /\ assignment' = c.assignment
           /\ total_cost' = c.total_cost
           /\ locals' = [x \in {"min_locations", "max_locations", "delta_equalizing",
                                 "step_size", "delta_capped", "scale_factor", "delta",
                                 "masked_read"} |-> c[x]]
           /\ pc' = IF c.assert_ok THEN "loop" ELSE "raised"
           /\ raised' = IF c.assert_ok THEN "" ELSE "AssertionError"
    /\ cycle_i' = cycle_i + 1
    /\ UNCHANGED <<facade_vars, demand_df, supply_df, cost_df, neighbor_cost_df, access_df, series,
                   cost_G, ret, call, demand_np, supply_np, travel_np>>

(* The loop is over: the cost of line 99 and the series raam returns; with *)
(* no pass made, total_cost is unbound.                                    *)
RaamReturn ==
    /\ pc = "loop"
    /\ call.method = "raam"
    /\ ~InRange(cycle_i, call.max_cycles)
    /\ IF cycle_i = 0
       THEN /\ pc' = "raised"
            /\ raised' = "UnboundLocalError"
            /\ UNCHANGED series
       ELSE /\ pc' = "done"
            /\ raised' = ""
            /\ series' = RaamSeries(RaamCost(total_cost, assignment,
                                             DOMAIN demand_np, DOMAIN supply_np))
    /\ UNCHANGED <<facade_vars, demand_df, supply_df, cost_df, neighbor_cost_df, access_df, cost_G,
                   ret, call, demand_np, supply_np, travel_np, cycle_i, assignment,
                   total_cost, locals>>

NextRaam ==
    \/ \E p \in RaamArgs : RaamCall(p)
    \/ RaamCycle
    \/ RaamReturn

SpecRaam == InitRaam /\ [][NextRaam]_vars

(* A step of the call inside iterate_raam, seen through pc and i alone:     *)
(* another pass of the loop, or the end of the call.                       *)
RaamStep ==
    /\ pc = "loop"
    /\ \/ cycle_i' = cycle_i + 1 /\ pc' \in {"loop", "raised"}
       \/ cycle_i' = cycle_i /\ pc' \in {"done", "raised"}

(* The interpreter keeps running the call: inside iterate_raam a step is   *)
(* eventually taken.                                                       *)
SpecRaamFair == SpecRaam /\ WF_<<pc, cycle_i>>(RaamStep)

(***************************************************************************)
(* The weight constructors called on their own (src/access/weights.py):    *)
(* a constructor is called once; the function it returns, if it returns    *)
(* one, is then applied to inputs one at a time, as Series.apply does, and *)
(* series collects the weights returned.                                   *)
(***************************************************************************)
Thresholds == {10, 20, 30}
WeightVals == {QNeg(One), Zero, Frac(1, 2), One, NaN}
XVals == {0, 10, 11, 30, 31}
Sigmas == {-20, 0, 1, 20}
StepArgs ==
    {[type |-> "dict", items |-> d] : d \in Tables(SUBSET Thresholds, WeightVals)}
        \cup {[type |-> t, items |-> d] :
                 t \in {"list", "OrderedDict"}, d \in Tables({{20}}, WeightVals)}
        \cup {[type |-> t, items |-> <<>>] : t \in {"int", "str", "float", "list"}}

InitWeights ==
    /\ demand_df = <<>>
    /\ supply_df = <<>>
    /\ cost_df = {}
    /\ neighbor_cost_df = {}
    /\ InitFacade
    /\ NeighborCostGiven
    /\ RaamIdle

Constructed(r) ==
    /\ raised' = r.raised
    /\ ret' = r.fn
    /\ UNCHANGED <<facade_vars, demand_df, supply_df, cost_df, neighbor_cost_df, access_df, series, cost_G>>
    /\ UNCHANGED <<pc, demand_np, supply_np, travel_np, cycle_i, assignment, total_cost, locals>>

StepFn(arg) ==
    /\ Ready
    /\ call' = [method |-> "step_fn", step_dict |-> arg]
    /\ Constructed(step_fn(arg))

Gaussian(sigma) ==
    /\ Ready
    /\ call' = [method |-> "gaussian", sigma |-> sigma]
    /\ Constructed(gaussian(sigma))

(* The function step_fn returned is called on one more input.              *)
Helper(key_to_test) ==
    /\ call.method = "step_fn" /\ raised = ""
    /\ key_to_test \notin DOMAIN series
    /\ series' = series @@ (key_to_test :> Weight(ret, key_to_test))
    /\ UNCHANGED <<facade_vars, demand_df, supply_df, cost_df, neighbor_cost_df, access_df, cost_G, ret,
                   call, raam_vars>>

NextWeights ==
    \/ \E arg \in StepArgs : StepFn(arg)
    \/ \E sigma \in Sigmas : Gaussian(sigma)
    \/ \E x \in XVals : Helper(x)

SpecWeights == InitWeights /\ [][NextWeights]_vars

(***************************************************************************)
(* The hospital example of tests/test_hospital_example.py: three tracts,   *)
(* tract 3 with few people and many doctors; every tract one minute from   *)
(* itself, and three costs: into tract 3, out of tract 3, across.          *)
(***************************************************************************)
HospitalLocs == {1, 2, 3}
HospitalPop == <<100, 50, 10>>
HospitalDoc == <<15, 20, 100>>
HospitalMaxCost == 61
HospitalCosts(inbound, outbound, cross) ==
    CostRows([p \in HospitalLocs \X HospitalLocs |->
                IF p[1] = p[2] THEN 1
                ELSE IF p[2] = 3 THEN inbound
                ELSE IF p[1] = 3 THEN outbound
                ELSE cross])

(* The facade over the doctors of the example, any of the three            *)
(* populations at each tract, and the costs of the four scenarios and      *)
(* their mixtures; no neighbour cost table is given.                       *)
InitHospital ==
    /\ demand_df \in [HospitalLocs -> {HospitalPop[k] : k \in HospitalLocs}]
    /\ supply_df = HospitalDoc
    /\ cost_df \in {HospitalCosts(i, o, c) : i \in {20, 40}, o \in {20, 40}, c \in {40, 80}}
    /\ neighbor_cost_df = {}
    /\ InitFacade
    /\ NeighborCostNotGiven
    /\ RaamIdle

NextHospital ==
    \E m \in {NoMaxCost, <<HospitalMaxCost>>} : TwoStageFca("2sfca", m, Gravity, FALSE)

SpecHospital == InitHospital /\ [][NextHospital]_vars

(***************************************************************************)
(* Access.raam: the facade method calls raam.raam, stores the series as    *)
(* the column raam_value of access_df, and returns the column.             *)
(***************************************************************************)
IntStepOne == [is_float |-> FALSE, initial_step |-> One, min_step |-> Frac(1, 200)]
MinStepOne == [is_float |-> TRUE, initial_step |-> Frac(1, 5), min_step |-> One]

AccessRaamArgsWith(m, s, rho, half_life, normalize) ==
    [max_cycles |-> m, tau |-> DefaultTau, rho |-> rho, half_life |-> half_life,
     is_float |-> s.is_float, initial_step |-> s.initial_step, min_step |-> s.min_step,
     normalize |-> normalize]

(* The calls drawn: the defaults, initial_step = 1 and min_step = 1 for    *)
(* one cycle and for the most cycles; no cycle at all; rho given;          *)
(* half_life given; normalize = True.                                      *)
AccessRaamArgs ==
    {AccessRaamArgsWith(m, s, NoRho, DefaultHalfLife, FALSE) :
        m \in {1, MaxCycles}, s \in {FloatStep, IntStepOne, MinStepOne}}
    \cup {AccessRaamArgsWith(0, FloatStep, NoRho, DefaultHalfLife, FALSE),
          AccessRaamArgsWith(1, FloatStep, <<One>>, DefaultHalfLife, FALSE),
          AccessRaamArgsWith(MaxCycles, IntStep, NoRho, 1, FALSE),
          AccessRaamArgsWith(1, FloatStep, NoRho, DefaultHalfLife, TRUE)}

(* Lines 675-689: the arguments Access.raam hands to raam.raam.  rho and   *)
(* half_life are not among them, so raam.raam takes its defaults.          *)
RaamArgsOfFacade(a) ==
    [RaamArgsWith(a.max_cycles, a, NoRho, DefaultHalfLife) EXCEPT !.tau = a.tau]

AccessRaam(a, run) ==
    /\ IF run = "first" THEN pc = "idle"
       ELSE pc = "done" /\ call.run = "first" /\ call.asked = a
    /\ call' = [RaamArgsOfFacade(a) EXCEPT !.method = "Access.raam"]
                 @@ [asked |-> a, run |-> run, normalize |-> a.normalize]
    /\ RaamEnter(RaamArgsOfFacade(a))
    /\ UNCHANGED <<facade_vars, demand_df, supply_df, cost_df, neighbor_cost_df, access_df, series,
                   cost_G, ret>>

(* Lines 691-704, after raam.raam returned (or raised).                    *)
AccessRaamReturn ==
    /\ pc = "loop"
    /\ call.method = "Access.raam"
    /\ ~InRange(cycle_i, call.max_cycles)
    /\ IF cycle_i = 0
       THEN /\ pc' = "raised"
            /\ raised' = "UnboundLocalError"
            /\ UNCHANGED <<series, access_df, ret>>
       ELSE /\ pc' = "done"
            /\ raised' = ""
            /\ \E rs \in {RaamSeries(RaamCost(total_cost, assignment,
                                               DOMAIN demand_np, DOMAIN supply_np))} :
                   StoreAndReturn("raam", rs, call.normalize)
    /\ UNCHANGED <<facade_vars, demand_df, supply_df, cost_df, neighbor_cost_df, cost_G, call,
                   demand_np, supply_np, travel_np, cycle_i, assignment, total_cost,
                   locals>>

GridDemands == {1, 5}
GridSupplies == {1, 2}
GridCosts == {0, 30}

(* The facade over one or two demand locations, two supply locations and a *)
(* cost table with every edge.                                             *)
InitAccessRaam ==
    /\ demand_df \in Tables({{1}, {2}, RaamLocs}, GridDemands)
    /\ supply_df \in [RaamLocs -> GridSupplies]
    /\ cost_df \in {CostRows(t) : t \in [RaamLocs \X RaamLocs -> GridCosts]}
    /\ neighbor_cost_df = cost_df
    /\ InitFacade
    /\ NeighborCostGiven
    /\ RaamIdle

NextAccessRaam ==
    \/ \E a \in AccessRaamArgs, run \in {"first", "again"} : AccessRaam(a, run)
    \/ RaamCycle
    \/ AccessRaamReturn

SpecAccessRaam == InitAccessRaam /\ [][NextAccessRaam]_vars

(***************************************************************************)
(* The measures written directly over pairs of locations, as the           *)
(* specification states them, and the reference implementation of the      *)
(* tests.                                                                  *)
(***************************************************************************)
HasEdge(rows, i, j) == \E r \in rows : r.origin = i /\ r.dest = j
CostOf(rows, i, j) == (CHOOSE r \in rows : r.origin = i /\ r.dest = j).cost
Within(rows, i, j, max_cost) ==
    /\ HasEdge(rows, i, j)
    /\ max_cost # NoMaxCost => CostOf(rows, i, j) < max_cost[1]
Origins(rows) == {r.origin : r \in rows}
Dests(rows) == {r.dest : r \in rows}

(* The weight of the edge (i, j): 1 without a weight function, w(cost) in  *)
(* the two-stage measures, W * G in the three-stage measure.               *)
RawWeight(weight_fn, rows, i, j) ==
    IF weight_fn = NoWeight THEN One ELSE Weight(weight_fn, CostOf(rows, i, j))
PrefG(weight_fn, rows, i, j) ==
    QDiv(RawWeight(weight_fn, rows, i, j),
         SumSkipNa([d \in {x \in Dests(rows) : HasEdge(rows, i, x)} |->
                        RawWeight(weight_fn, rows, i, d)]))
EdgeWeight(three, weight_fn, rows, i, j) ==
    IF three THEN QMul(RawWeight(weight_fn, rows, i, j), PrefG(weight_fn, rows, i, j))
    ELSE RawWeight(weight_fn, rows, i, j)

SupplyOf(j) == IF j \in DOMAIN supply_df THEN Q(supply_df[j]) ELSE Zero

(* Dagg_j: the weighted demand of the demand locations within the cutoff   *)
(* of destination j; Sum is the summation used (plain, or skipping NaN).   *)
DemandWithin(j, max_cost) == {k \in DOMAIN demand_df : Within(cost_df, k, j, max_cost)}
DaggTerms(three, weight_fn, j, max_cost) ==
    [k \in DemandWithin(j, max_cost) |->
        QMul(EdgeWeight(three, weight_fn, cost_df, k, j), Q(demand_df[k]))]
Dagg(skipna, three, weight_fn, j, max_cost) ==
    IF skipna THEN SumSkipNa(DaggTerms(three, weight_fn, j, max_cost))
    ELSE SumPlain(DaggTerms(three, weight_fn, j, max_cost))
StageTerm(skipna, three, weight_fn, i, j, max_cost) ==
    QMul(EdgeWeight(three, weight_fn, cost_df, i, j),
         QDiv(SupplyOf(j), Dagg(skipna, three, weight_fn, j, max_cost)))

(* The claimed value: a plain sum over every destination within the        *)
(* cutoff of i.                                                            *)
ClaimedStageValue(three, weight_fn, i, max_cost) ==
    SumPlain([j \in {x \in Dests(cost_df) : Within(cost_df, i, x, max_cost)} |->
                StageTerm(FALSE, three, weight_fn, i, j, max_cost)])

(* The value with undefined terms (0/0, 0 * infinity) skipped in both      *)
(* sums and destinations within the cutoff of no demand location left out. *)
ReachedDests(i, max_cost) ==
    {j \in Dests(cost_df) : Within(cost_df, i, j, max_cost) /\ DemandWithin(j, max_cost) # {}}
AmendedStageValue(three, weight_fn, i, max_cost) ==
    SumSkipNa([j \in ReachedDests(i, max_cost) |->
                StageTerm(TRUE, three, weight_fn, i, j, max_cost)])

(* tests/test_hospital_example.py simple_2sfca, over the pivoted cost      *)
(* table: gravity weights 1/cost, Python sums.  It raises KeyError when a  *)
(* location is no origin or no destination of the cost table and           *)
(* ZeroDivisionError when a hospital has nobody within max_travel.         *)
simple_2sfca(rows, supply, demand, locs, max_travel, three_stage) ==
    LET InReach(res, hosp) == HasEdge(rows, res, hosp) /\ CostOf(rows, res, hosp) < max_travel
        W(res, hosp) == QDiv(One, Q(CostOf(rows, res, hosp)))
        WS(res) == SumSkipNa([h \in {x \in locs : HasEdge(rows, res, x)} |-> W(res, h)])
        GOD(res, hosp) ==
            IF three_stage
            THEN QDiv(Q(CostOf(rows, res, hosp)), QDiv(W(res, hosp), WS(res)))
            ELSE Q(CostOf(rows, res, hosp))
        D == [hosp \in locs |->
                SumPlain([res \in {x \in locs : InReach(x, hosp)} |->
                            QDiv(Q(demand[res]), GOD(res, hosp))])]
        R == [l \in locs |-> QDiv(Q(supply[l]), D[l])]
        A == [res \in locs |->
                SumPlain([hosp \in {x \in locs : InReach(res, x)} |->
                            QDiv(R[hosp], GOD(res, hosp))])]
        raises == \/ \E l \in locs : l \notin Origins(rows) \/ l \notin Dests(rows)
                  \/ \E hosp \in locs : \A res \in locs : ~InReach(res, hosp)
    IN  IF raises THEN [raised |-> TRUE, A |-> <<>>] ELSE [raised |-> FALSE, A |-> A]

(* The reference applies to a call with the gravity weight, a cutoff, and  *)
(* demand and supply tables that cover every location.                     *)
ReferenceApplies ==
    /\ call.method \in {"2sfca", "3sfca"}
    /\ call.weight_fn = Gravity
    /\ call.max_cost # NoMaxCost
    /\ DOMAIN demand_df = Locs /\ DOMAIN supply_df = Locs
Reference ==
    simple_2sfca(cost_df, supply_df, demand_df, Locs, call.max_cost[1],
                 call.method = "3sfca")

StageCalled(method) == call.method = method
IsThree == call.method = "3sfca"

(* The original statement of C2 and C3: every value returned is the plain  *)
(* sum, and the result is that of the reference implementation.            *)
StageAsClaimed ==
    /\ \A i \in DOMAIN series :
          series[i] = ClaimedStageValue(IsThree, call.weight_fn, i, call.max_cost)
    /\ ReferenceApplies =>
          /\ ~Reference.raised
          /\ \A i \in Locs : /\ i \in DOMAIN series
                             /\ series[i] = Reference.A[i]

(* The amended statement: the sum skips undefined terms, and the result    *)
(* agrees with the reference wherever both define a number.                *)
StageAsAmended ==
    /\ DOMAIN series = {i \in Origins(cost_df) : ReachedDests(i, call.max_cost) # {}}
    /\ \A i \in DOMAIN series :
          series[i] = AmendedStageValue(IsThree, call.weight_fn, i, call.max_cost)
    /\ (ReferenceApplies /\ ~Reference.raised) =>
          \A i \in DOMAIN series :
              IsNaN(Reference.A[i]) \/ series[i] = Reference.A[i]

(* C2 (original statement): two_stage_fca returns for each origin i        *)
(* A_i = sum_j w(c_ij) * S_j / Dagg_j over the destinations within the     *)
(* cutoff, and equals the reference implementation on every input.         *)
C2_AsClaimed == StageCalled("2sfca") => StageAsClaimed

(* C2 (amended): two_stage_fca returns, for each origin with a destination *)
(* within the cutoff that some demand location reaches, the sum of         *)
(* w(c_ij) * S_j / Dagg_j in which undefined terms (0/0, 0 * infinity) are *)
(* skipped; it equals the reference wherever the reference yields a number.*)
C2_TwoStageValue == StageCalled("2sfca") => StageAsAmended

(* A two-stage call with a weight function whose result holds a non-zero   *)
(* finite value that agrees with the reference.                            *)
C2_Witness ==
    /\ StageCalled("2sfca") /\ ReferenceApplies /\ ~Reference.raised
    /\ \E i \in DOMAIN series : IsFinite(series[i]) /\ series[i] # Zero
                                 /\ series[i] = Reference.A[i]
    /\ \E i \in DOMAIN series, j \in Locs :
          /\ Within(cost_df, i, j, call.max_cost)
          /\ IsNaN(StageTerm(FALSE, FALSE, call.weight_fn, i, j, call.max_cost))

(* C3 (original statement): three_stage_fca is the two-stage sum with the  *)
(* weight W * G in both passes, equal to the reference on every input.     *)
C3_AsClaimed == StageCalled("3sfca") => StageAsClaimed

(* C3 (amended): three_stage_fca returns the two-stage sum with the weight *)
(* W * G, G = W / (sum of W over all edges of the origin), in both passes, *)
(* undefined terms skipped; it equals the reference wherever the reference *)
(* yields a number.                                                        *)
C3_ThreeStageValue == StageCalled("3sfca") => StageAsAmended

(* A three-stage call where the preference weight differs from 1 and the   *)
(* result holds a non-zero finite value.                                   *)
C3_Witness ==
    /\ StageCalled("3sfca") /\ ReferenceApplies /\ ~Reference.raised
    /\ \E r \in cost_G : IsFinite(r.G) /\ r.G # One /\ r.G # Zero
    /\ \E i \in DOMAIN series : IsFinite(series[i]) /\ series[i] # Zero
                                 /\ series[i] = Reference.A[i]

(***************************************************************************)
(* fca_ratio, the cutoff, the zero catchment, the preference weights and   *)
(* the normalisation.                                                      *)
(***************************************************************************)
Strip(rows, max_cost) ==
    IF max_cost = NoMaxCost THEN rows ELSE {r \in rows : r.cost < max_cost[1]}
SupplyEdges(o, max_cost) ==
    {r \in Strip(cost_df, max_cost) : r.origin = o /\ r.dest \in DOMAIN supply_df}
DemandEdges(o, max_cost) ==
    {r \in Strip(neighbor_cost_df, max_cost) : r.origin = o /\ r.dest \in DOMAIN demand_df}
SupplySum(o, max_cost) ==
    SumPlain([r \in SupplyEdges(o, max_cost) |-> Q(supply_df[r.dest])])
DemandSum(o, max_cost) ==
    SumPlain([r \in DemandEdges(o, max_cost) |-> Q(demand_df[r.dest])])
Total(t) == SumPlain(IntTable(t))

(* C4: fca_ratio returns for each location o of its series (sum of supply  *)
(* over supply-cost edges from o below max_cost) / (sum of demand over     *)
(* neighbour-cost edges from o below max_cost); with every supply and      *)
(* demand location within the cutoff that is total supply / total demand,  *)
(* with only o itself within the cutoff it is supply(o) / demand(o).       *)
C4_FcaRatioQuotient ==
    call.method = "fca_ratio" =>
        \A o \in DOMAIN series :
            LET se == SupplyEdges(o, call.max_cost)
                de == DemandEdges(o, call.max_cost)
            IN  /\ series[o] = QDiv(SupplySum(o, call.max_cost), DemandSum(o, call.max_cost))
                /\ ({r.dest : r \in se} = DOMAIN supply_df
                        /\ {r.dest : r \in de} = DOMAIN demand_df)
                     => series[o] = QDiv(Total(supply_df), Total(demand_df))
                /\ ({r.dest : r \in se} = {o} /\ {r.dest : r \in de} = {o})
                     => series[o] = QDiv(Q(supply_df[o]), Q(demand_df[o]))

(* An fca_ratio call under a cutoff where a location sums two supplies     *)
(* over one neighbour's demand, and another edge lies beyond the cutoff.   *)
C4_Witness ==
    /\ call.method = "fca_ratio" /\ call.max_cost # NoMaxCost
    /\ Strip(cost_df, call.max_cost) # cost_df
    /\ \E o \in DOMAIN series :
          /\ Cardinality(SupplyEdges(o, call.max_cost)) = 2
          /\ Cardinality(DemandEdges(o, call.max_cost)) = 1
          /\ IsFinite(series[o]) /\ series[o] # Zero /\ series[o] # One

CatchmentDirect(o, max_cost, weight_fn) ==
    SumPlain([r \in SupplyEdges(o, max_cost) |->
                QMul(Q(supply_df[r.dest]),
                     IF weight_fn = NoWeight THEN One ELSE Weight(weight_fn, r.cost))])

(* C5: a cost edge contributes only if its cost is strictly below          *)
(* max_cost, and max_cost = None applies no cutoff: the weighted catchment *)
(* is the sum over exactly those edges, and every ratio method returns     *)
(* what it returns, with no cutoff, on the tables stripped of the edges    *)
(* at or above max_cost.                                                   *)
C5_StrictCutoff ==
    /\ call.method = "catchment" =>
          /\ DOMAIN series = {o \in Locs : SupplyEdges(o, call.max_cost) # {}}
          /\ \A o \in DOMAIN series :
                series[o] = CatchmentDirect(o, call.max_cost, call.weight_fn)
    /\ call.method = "fca_ratio" =>
          series = fca_ratio(demand_df, supply_df, Strip(neighbor_cost_df, call.max_cost),
                             Strip(cost_df, call.max_cost), NoMaxCost, NoWeight)
    /\ call.method \in {"2sfca", "e2sfca"} =>
          series = two_stage_fca(demand_df, supply_df, Strip(cost_df, call.max_cost),
                                 NoMaxCost, call.weight_fn)
    /\ call.method = "3sfca" =>
          series = ThreeStagePasses(demand_df, supply_df, Strip(cost_G, call.max_cost),
                                    NoMaxCost, call.weight_fn)

(* A weighted catchment call whose cutoff equals the cost of an edge to a  *)
(* location with supply, from an origin that has another edge below it.    *)
C5_Witness ==
    /\ call.method = "catchment" /\ call.max_cost # NoMaxCost
    /\ \E r \in cost_df :
          /\ r.cost = call.max_cost[1]
          /\ r.dest \in DOMAIN supply_df /\ supply_df[r.dest] > 0
          /\ r.origin \in DOMAIN series
          /\ series[r.origin] # Zero

MeasureColumn(method) == (IF method = "fca_ratio" THEN "fca" ELSE method) \o "_value"
RatioMethods == {"fca_ratio", "2sfca", "e2sfca", "3sfca"}
NoEdgeSurvives(max_cost) ==
    Strip(cost_df, max_cost) = {} /\ Strip(neighbor_cost_df, max_cost) = {}

(* C6: when no cost edge survives the cutoff, fca_ratio, two_stage_fca,    *)
(* enhanced_two_stage_fca and three_stage_fca complete and the value       *)
(* stored (and returned) for every demand location is NaN.                 *)
C6_ZeroCatchmentNaN ==
    (call.method \in RatioMethods /\ NoEdgeSurvives(call.max_cost)) =>
        /\ DOMAIN access_df[MeasureColumn(call.method)] = DOMAIN demand_df
        /\ \A i \in DOMAIN demand_df :
              /\ IsNaN(access_df[MeasureColumn(call.method)][i])
              /\ IsNaN(ret[MeasureColumn(call.method)][i])

(* A ratio method called with max_cost = 0 over a non-empty cost table,    *)
(* with positive demand and supply.                                        *)
C6_Witness ==
    /\ call.method \in RatioMethods /\ call.max_cost = <<0>>
    /\ cost_df # {} /\ DOMAIN demand_df = Locs
    /\ \E i \in DOMAIN demand_df : demand_df[i] > 0
    /\ \E j \in DOMAIN supply_df : supply_df[j] > 0
    /\ IsNaN(access_df[MeasureColumn(call.method)][1])

GSum(rows) == SumPlain([r \in rows |-> r.G])

(* C7 (original statement): for every origin with a destination within the *)
(* cutoff, G summed over the destinations within the cutoff is 1.          *)
C7_AsClaimed ==
    call.method = "3sfca" =>
        \A o \in Origins(cost_G) :
            LET reach == {r \in Strip(cost_G, call.max_cost) : r.origin = o}
            IN  reach # {} => GSum(reach) = One

(* C7 (amended): for every origin with an edge of non-zero weight, G       *)
(* summed over all the origin's edges of the cost table, whatever          *)
(* max_cost, is 1.                                                         *)
C7_PreferenceSumsToOne ==
    call.method = "3sfca" =>
        \A o \in Origins(cost_G) :
            LET row == {r \in cost_G : r.origin = o}
            IN  (\E r \in row : r.W3 # Zero) => GSum(row) = One

(* A three-stage call where an origin has two edges of different non-zero  *)
(* preference weight, one of them at the cutoff.                           *)
C7_Witness ==
    /\ call.method = "3sfca" /\ call.max_cost # NoMaxCost
    /\ \E r1, r2 \in cost_G :
          /\ r1.origin = r2.origin /\ r1.G # r2.G
          /\ r1.G # Zero /\ r2.G # Zero
          /\ r1.cost < call.max_cost[1] /\ r2.cost = call.max_cost[1]

WeightedMean(v) ==
    QDiv(SumSkipNa([i \in DOMAIN v |-> QMul(v[i], Q(demand_df[i]))]), Total(demand_df))
Normalized == call # NoCall /\ call.normalize
RawColumn == access_df[MeasureColumn(call.method)]
RetColumn == ret[MeasureColumn(call.method)]
IsValueOverMean ==
    \A i \in DOMAIN RetColumn : RetColumn[i] = QDiv(RawColumn[i], WeightedMean(RawColumn))

(* C8 (original statement): with normalize=True the returned series is     *)
(* value / (demand-weighted mean) and its demand-weighted mean is 1 for    *)
(* positive total demand and non-zero mean access.                         *)
C8_AsClaimed ==
    (Normalized /\ Total(demand_df) # Zero /\ WeightedMean(RawColumn) # Zero) =>
        IsValueOverMean /\ WeightedMean(RetColumn) = One

(* C8 (amended): with normalize=True the returned series is value /        *)
(* (demand-weighted mean), and its demand-weighted mean is 1 for positive  *)
(* total demand and a mean access that is non-zero and finite.             *)
C8_NormalizedMeanIsOne ==
    Normalized =>
        /\ IsValueOverMean
        /\ (Total(demand_df) # Zero /\ WeightedMean(RawColumn) # Zero
                /\ IsFinite(WeightedMean(RawColumn)))
             => WeightedMean(RetColumn) = One

(* A normalised call where one location with demand has no access value,   *)
(* another has one, and the mean access is neither 0 nor 1.                *)
C8_Witness ==
    /\ Normalized /\ Total(demand_df) # Zero
    /\ IsFinite(WeightedMean(RawColumn))
    /\ WeightedMean(RawColumn) # Zero /\ WeightedMean(RawColumn) # One
    /\ \E i, k \in DOMAIN RawColumn :
          /\ IsNaN(RawColumn[i]) /\ demand_df[i] > 0
          /\ IsFinite(RawColumn[k]) /\ demand_df[k] > 0

(***************************************************************************)
(* RAAM: conservation of demand, the cost returned, isolated origins.      *)
(***************************************************************************)
RowSum(a, o) == IntSum([j \in DOMAIN supply_np |-> a[o, j]])

(* C1: after the initial assignment and after the transfer of every cycle, *)
(* each origin's row of the assignment matrix sums to its demand, whatever *)
(* the anti-flood rescaling did and also where min_j = max_j; the assert   *)
(* in the loop never fails.                                                *)
C1_RowSumsConserved ==
    /\ raised # "AssertionError"
    /\ pc \in {"loop", "done"} =>
          \A o \in DOMAIN demand_np : RowSum(assignment, o) = demand_np[o]

(* A cycle in which the anti-flood rescaling cut an origin's transfer.     *)
C1_Witness ==
    /\ pc = "loop" /\ cycle_i > 0
    /\ \E o \in DOMAIN demand_np :
          /\ locals.delta[o] > 0
          /\ locals.delta[o] < locals.delta_capped[o]
          /\ QLt(One, locals.scale_factor[locals.min_locations[o]])
          /\ RowSum(assignment, o) = demand_np[o]

(* No value is ever read from a masked entry of the travel matrix.         *)
MaskedNeverRead == pc = "loop" /\ cycle_i > 0 => ~locals.masked_read

(* The cost of line 99 with total_cost evaluated on the assignment given.  *)
CostExperienced(a) ==
    RaamSeries(RaamCost(TotalCost(a, demand_np, supply_np, travel_np), a,
                        DOMAIN demand_np, DOMAIN supply_np))

(* C9: the value returned for origin i is sum_j total_cost[i,j] * A[i,j]   *)
(* / D[i] with A the assignment after the last cycle and total_cost        *)
(* evaluated on that same assignment.                                      *)
C9_CostOfFinalAssignment ==
    pc = "done" => \A o \in DOMAIN series : series[o] = CostExperienced(assignment)[o]

(* The destinations taking part in the solve, and the origins with demand  *)
(* that have no cost edge to any of them.                                  *)
TakingPart == {r.dest : r \in cost_df} \cap {j \in DOMAIN supply_df : supply_df[j] > 0}
Isolated ==
    {o \in DOMAIN demand_df :
        /\ demand_df[o] > 0
        /\ \A r \in cost_df : r.origin = o => r.dest \notin TakingPart}
WithoutOrigin(o) == raam(demand_df, supply_df, {r \in cost_df : r.origin # o}, call)

(* C10: an origin with positive demand and no cost edge to a destination   *)
(* taking part is excluded from the series raam returns, raam does not     *)
(* raise, and the other origins get what they get without it.              *)
C10_IsolatedOriginExcluded ==
    (pc \in {"done", "raised"} /\ call.max_cycles > 0) =>
        \A o \in Isolated :
            /\ raised = ""
            /\ o \notin DOMAIN series
            /\ \A x \in DOMAIN series \ {o} :
                  /\ x \in DOMAIN WithoutOrigin(o).rs
                  /\ series[x] = WithoutOrigin(o).rs[x]

(* The series returned is that of raam as a function of its arguments.     *)
RaamIsFunction ==
    /\ pc = "done" => raam(demand_df, supply_df, cost_df, call) = [raised |-> "", rs |-> series]
    /\ pc = "raised" => raam(demand_df, supply_df, cost_df, call).raised = raised

(***************************************************************************)
(* RAAM: the filters, the scaling of supply, the number of cycles.         *)
(***************************************************************************)
InSolver == pc \in {"loop", "done"}
FilteredLocations ==
    /\ DOMAIN demand_np = {o \in Origins(cost_df) : demand_df[o] > 0}
    /\ DOMAIN supply_np = {j \in Dests(cost_df) : supply_df[j] > 0}
    /\ DOMAIN travel_np = (DOMAIN demand_np) \X (DOMAIN supply_np)
    /\ DOMAIN assignment = DOMAIN travel_np
    /\ pc = "done" => DOMAIN series = DOMAIN demand_np
CapacityPositive == \A j \in DOMAIN supply_np : QLt(Zero, supply_np[j])
DemandPositive == \A o \in DOMAIN demand_np : RowSum(assignment, o) > 0
SomeDemand == \E o \in DOMAIN demand_df : demand_df[o] > 0

(* C11 (original statement): only origins with demand > 0 and destinations *)
(* with supply > 0 are rows and columns of the solver state and entries of *)
(* the output, so the capacity the congestion cost divides by is never     *)
(* zero and the demand the final cost divides by is never zero.            *)
C11_AsClaimed ==
    InSolver => FilteredLocations /\ CapacityPositive /\ DemandPositive

(* C11 (amended): only origins with demand > 0 and destinations with       *)
(* supply > 0 are rows and columns of the solver state and entries of the  *)
(* output; the demand the final cost divides by is never zero; the scaled  *)
(* capacity the congestion cost divides by is positive when rho is         *)
(* positive, that is, with the default rho, when some location has demand. *)
C11_NonPositiveDropped ==
    InSolver =>
        /\ FilteredLocations
        /\ DemandPositive
        /\ (IF call.rho = NoRho THEN SomeDemand ELSE QLt(Zero, call.rho[1]))
              => CapacityPositive

(* A call that returns a value although an origin of the cost table has no *)
(* demand and a destination of the cost table has no supply.               *)
C11_Witness ==
    /\ pc = "done"
    /\ \E o \in Origins(cost_df) : demand_df[o] = 0
    /\ \E j \in Dests(cost_df) : supply_df[j] = 0
    /\ \E o \in DOMAIN series : IsFinite(series[o])

(* C13: iterate_raam terminates, and for max_cycles >= 1 it returns after  *)
(* exactly max_cycles passes of the loop, whether or not demand still      *)
(* moves.                                                                  *)
C13_ExactlyMaxCycles ==
    /\ [](pc = "loop" => cycle_i <= call.max_cycles)
    /\ [](pc = "done" => cycle_i = call.max_cycles /\ call.max_cycles >= 1)
    /\ (pc = "loop" ~> pc \in {"done", "raised"})
    /\ ((pc = "loop" /\ call.max_cycles >= 1) ~> pc = "done")

(* A call that returned after more than one pass, the last of which still  *)
(* moved demand.                                                           *)
C13_Witness ==
    /\ pc = "done" /\ cycle_i > 1
    /\ \E o \in DOMAIN demand_np : locals.delta[o] > 0

(***************************************************************************)
(* Access.raam: its parameters, and the single demand location.            *)
(***************************************************************************)
ViaFacade == call.method = "Access.raam"
RhoAsked ==
    IF call.asked.rho = NoRho THEN QDiv(Total(demand_df), Total(supply_df))
    ELSE call.asked.rho[1]
DirectArgs(a) == [RaamArgsWith(a.max_cycles, a, a.rho, a.half_life) EXCEPT !.tau = a.tau]

(* C12: the supply of the solver is supply * rho, with rho the ratio of    *)
(* total demand to total supply when not given and the caller's value when *)
(* given, and a call of Access.raam returns what raam.raam returns for the *)
(* same tau, rho, max_cycles, initial_step, half_life and min_step.        *)
C12_FacadeParametersTakeEffect ==
    (ViaFacade /\ pc = "done") =>
        /\ \A j \in DOMAIN supply_np : supply_np[j] = QMul(Q(supply_df[j]), RhoAsked)
        /\ series = raam(demand_df, supply_df, cost_df, DirectArgs(call.asked)).rs

(* One demand location of demand 1, every supply location of capacity 1   *)
(* and reachable from it, one of them at no cost.                          *)
GridCase ==
    /\ ViaFacade
    /\ Cardinality(DOMAIN demand_df) = 1
    /\ \A o \in DOMAIN demand_df :
          /\ demand_df[o] = 1
          /\ \A j \in DOMAIN supply_df : supply_df[j] = 1 /\ HasEdge(cost_df, o, j)
          /\ \E j \in DOMAIN supply_df : CostOf(cost_df, o, j) = 0

(* C14: in that case Access.raam does not raise for max_cycles >= 1, the   *)
(* demand stays assigned in full, and the value stored for the location is *)
(* the total supply; in the default float mode, with initial_step = 1,     *)
(* with min_step = 1, and when the measure is run again.                   *)
C14_SingleDemandGetsTotalSupply ==
    GridCase =>
        /\ pc = "raised" => call.max_cycles = 0
        /\ pc = "done" =>
              \A o \in DOMAIN demand_df :
                  /\ RowSum(assignment, o) = demand_df[o]
                  /\ series[o] = Total(supply_df)
                  /\ access_df["raam_value"][o] = Total(supply_df)

(* The case, run a second time with initial_step = 1.                      *)
C14_Witness ==
    /\ GridCase /\ pc = "done"
    /\ call.run = "again" /\ ~call.is_float
    /\ \A o \in DOMAIN demand_df : access_df["raam_value"][o] = Q(2)

(***************************************************************************)
(* The hospital example: the direction in which access moves.              *)
(***************************************************************************)
Scenario(inbound, outbound, cross) ==
    two_stage_fca(demand_df, supply_df, HospitalCosts(inbound, outbound, cross),
                  call.max_cost, call.weight_fn)
Gridlock ==
    /\ call.method = "2sfca" /\ call.max_cost = <<HospitalMaxCost>>
    /\ cost_df = HospitalCosts(40, 40, 80)
Rises(s, i) == QLt(series[i], s[i])
Falls(s, i) == QLt(s[i], series[i])

(* C15: on the hospital configuration with all costs at their gridlock     *)
(* values, lowering the cost into tract 3 raises 2SFCA access at tracts 1  *)
(* and 2 and lowers it at tract 3; lowering the cost out of tract 3 does   *)
(* the opposite at all three; lowering all costs raises access at tracts 1 *)
(* and 2 and lowers it at tract 3.  The first two hold for every           *)
(* population drawn.                                                       *)
C15_HospitalDirections ==
    Gridlock =>
        /\ LET s == Scenario(20, 40, 80)
           IN  Rises(s, 1) /\ Rises(s, 2) /\ Falls(s, 3)
        /\ LET s == Scenario(40, 20, 80)
           IN  Falls(s, 1) /\ Falls(s, 2) /\ Rises(s, 3)
        /\ demand_df = HospitalPop =>
              LET s == Scenario(20, 20, 40)
              IN  Rises(s, 1) /\ Rises(s, 2) /\ Falls(s, 3)

(* The gridlock scenario with the populations of the example: access at    *)
(* tract 1 is 15 / 100.25 + (100 / 13.75) / 40.                            *)
C15_Witness ==
    /\ Gridlock /\ demand_df = HospitalPop
    /\ series[1] = Frac(1462, 4411)

(***************************************************************************)
(* The index of the series fca_ratio returns.                              *)
(***************************************************************************)
RatioCalled == call.method = "fca_ratio"
DemandCatchmentOrigins(max_cost) ==
    {r.origin : r \in {x \in Strip(neighbor_cost_df, max_cost) : x.dest \in DOMAIN demand_df}}
ZeroWithoutSupply(o) ==
    (SupplyEdges(o, call.max_cost) = {} /\ DemandSum(o, call.max_cost) # Zero)
        => series[o] = Zero
NaNOnlyOnZeroDemand(o) == IsNaN(series[o]) => DemandSum(o, call.max_cost) = Zero

(* C16 as stated: the series of fca_ratio has an entry for every demand    *)
(* location; an entry with demand but no supply within max_cost is 0; an   *)
(* entry is NaN only where the aggregated demand is zero.                  *)
C16_AsClaimed ==
    RatioCalled =>
        /\ DOMAIN demand_df \subseteq DOMAIN series
        /\ \A o \in DOMAIN series : ZeroWithoutSupply(o) /\ NaNOnlyOnZeroDemand(o)

(* C16: the series of fca_ratio has an entry for exactly the origins of    *)
(* the neighbour cost edges below max_cost that end at a demand location;  *)
(* an entry with demand but no supply within max_cost is 0, not missing;   *)
(* an entry is NaN only where the aggregated demand is zero; a demand      *)
(* location without an entry is NaN in the column the facade stores.       *)
C16_RatioEntries ==
    RatioCalled =>
        /\ DOMAIN series = DemandCatchmentOrigins(call.max_cost)
        /\ \A o \in DOMAIN series : ZeroWithoutSupply(o) /\ NaNOnlyOnZeroDemand(o)
        /\ DOMAIN access_df["fca_value"] = DOMAIN demand_df
        /\ \A i \in DOMAIN demand_df \ DOMAIN series : IsNaN(access_df["fca_value"][i])

(* An fca_ratio call where one location has demand but no supply within    *)
(* reach and gets 0, and another demand location has no entry.             *)
C16_Witness ==
    /\ RatioCalled
    /\ \E o \in DOMAIN series :
          /\ SupplyEdges(o, call.max_cost) = {}
          /\ DemandSum(o, call.max_cost) # Zero
          /\ series[o] = Zero
    /\ DOMAIN demand_df \ DOMAIN series # {}

(***************************************************************************)
(* weighted_catchment without a magnitude column.                          *)
(***************************************************************************)
EngineCatchmentCalled == call.method = "fca.weighted_catchment"

(* C17: weighted_catchment called with loc_value = None does not fail and  *)
(* returns, for each group key, the number of joined cost rows that        *)
(* survive the cutoff.                                                     *)
C17_CountWithoutValueColumn ==
    (EngineCatchmentCalled /\ call.loc_value = NoLocValue) =>
        /\ raised = ""
        /\ DOMAIN series = {o \in Locs : SupplyEdges(o, call.max_cost) # {}}
        /\ \A o \in DOMAIN series :
              series[o] = Q(Cardinality(SupplyEdges(o, call.max_cost)))

(* With the magnitude column named, the direct call returns what the       *)
(* facade's weighted_catchment stores.                                     *)
EngineCatchmentSums ==
    (EngineCatchmentCalled /\ call.loc_value = ValueColumn) =>
        /\ raised = ""
        /\ DOMAIN series = {o \in Locs : SupplyEdges(o, call.max_cost) # {}}
        /\ \A o \in DOMAIN series :
              series[o] = CatchmentDirect(o, call.max_cost, call.weight_fn)

(***************************************************************************)
(* The tables a call is given.                                             *)
(***************************************************************************)
CostColumns == {"origin", "dest", "cost"}
InputsKept ==
    /\ demand_df' = demand_df
    /\ supply_df' = supply_df
    /\ cost_df' = cost_df
    /\ neighbor_cost_df' = neighbor_cost_df

(* C18: no call changes the rows, the values or the columns of the demand, *)
(* supply or cost tables it is given; after three_stage_fca the cost table *)
(* has no W3, W3sum or G column and is what it was before the call.        *)
C18_InputsUnchanged == [][InputsKept]_vars

(* What three_stage_fca leaves behind is the W3 column alone, and no other *)
(* method leaves a column behind.                                          *)
OnlyW3Leaks ==
    \A r \in cost_df :
        DOMAIN r = IF call.method = "3sfca" THEN CostColumns \cup {"W3"} ELSE CostColumns

(***************************************************************************)
(* The step function and the checks of the weight constructors.            *)
(***************************************************************************)
StepDict == call.step_dict.items
AtOrAbove(x) == {k \in DOMAIN StepDict : x <= k}
IsSmallest(k, S) == k \in S /\ \A k2 \in S : k <= k2
NeverNegative(w) == ~QLt(w, Zero)

(* C19: step_fn(d)(x) is the weight of the smallest threshold k of d with  *)
(* x <= k, and 0 when x is above every threshold; for d = {k: w} it is w   *)
(* for x <= k and 0 for x > k; the weight returned is never negative.      *)
C19_StepFunctionValue ==
    (call.method = "step_fn" /\ raised = "") =>
        \A x \in DOMAIN series :
            /\ AtOrAbove(x) = {} => series[x] = Zero
            /\ \A k \in DOMAIN StepDict :
                  IsSmallest(k, AtOrAbove(x)) => series[x] = StepDict[k]
            /\ \A k \in DOMAIN StepDict :
                  DOMAIN StepDict = {k} =>
                      series[x] = IF x <= k THEN StepDict[k] ELSE Zero
            /\ NeverNegative(series[x])
            /\ series[x] = helper(StepDict, DOMAIN StepDict, x)

(* A step function of three thresholds with three different weights,       *)
(* applied below, at, between and above its thresholds.                    *)
C19_Witness ==
    /\ call.method = "step_fn" /\ raised = ""
    /\ StepDict = (10 :> One) @@ (20 :> Frac(1, 2)) @@ (30 :> Zero)
    /\ DOMAIN series = XVals
    /\ series[10] = One /\ series[11] = Frac(1, 2) /\ series[31] = Zero

NothingReturned == ret = <<>> /\ series = <<>>
HasNegativeWeight(d) == \E k \in DOMAIN d : QLt(d[k], Zero)

(* C20: step_fn raises TypeError for an argument that is not a dict and    *)
(* ValueError for a dict with a negative weight, gaussian raises           *)
(* ValueError for sigma = 0, and in each case no weight function is        *)
(* returned or called.                                                     *)
C20_ConstructorsReject ==
    /\ (call.method = "step_fn" /\ call.step_dict.type # "dict")
          => raised = "TypeError" /\ NothingReturned
    /\ (call.method = "step_fn" /\ call.step_dict.type = "dict"
            /\ HasNegativeWeight(StepDict))
          => raised = "ValueError" /\ NothingReturned
    /\ (call.method = "gaussian" /\ call.sigma = 0)
          => raised = "ValueError" /\ NothingReturned

(* step_fn was given a dict with a negative weight among other weights and *)
(* raised.                                                                 *)
C20_Witness ==
    /\ call.method = "step_fn" /\ call.step_dict.type = "dict"
    /\ StepDict = (10 :> One) @@ (20 :> QNeg(One))
    /\ raised = "ValueError"

(***************************************************************************)
(* The transfers of a cycle.                                               *)
(***************************************************************************)
CyclePassed == pc = "loop" /\ cycle_i' = cycle_i + 1
TransferWithinHolding ==
    \A o \in DOMAIN demand_np :
        /\ 0 <= locals'.delta[o]
        /\ locals'.delta[o] <= assignment[o, locals'.max_locations[o]]
        /\ locals'.max_locations[o] = locals'.min_locations[o] => locals'.delta[o] = 0
NonNegative(a) == \A p \in DOMAIN a : a[p] >= 0

(* C25: every transfer of a cycle is at least 0, at most what the origin   *)
(* held at max_j before the transfer, and 0 where min_j = max_j; every     *)
(* entry of the assignment matrix is non-negative at the start and after   *)
(* every cycle.                                                            *)
C25_TransferBounded ==
    /\ [][CyclePassed => TransferWithinHolding]_vars
    /\ [](InSolver => NonNegative(assignment))

(* After two cycles an origin has moved all it held at max_j, and another  *)
(* origin had nothing to move.                                             *)
C25_Witness ==
    /\ InSolver /\ cycle_i = 2
    /\ \E o \in DOMAIN demand_np :
          /\ locals.delta[o] > 0
          /\ locals.max_locations[o] # locals.min_locations[o]
          /\ assignment[o, locals.max_locations[o]] = 0
    /\ \E o \in DOMAIN demand_np : locals.max_locations[o] = locals.min_locations[o]

(***************************************************************************)
(* Where the assignment matrix holds demand.                               *)
(***************************************************************************)
Reachable(o, j) == ~IsMasked(travel_np[o, j])
OnEdgesOnly(o) == \A j \in DOMAIN supply_np : assignment[o, j] > 0 => Reachable(o, j)
StartsAtNearest ==
    \A o \in DOMAIN demand_np : \A j \in DOMAIN supply_np :
        assignment[o, j] > 0 =>
            /\ assignment[o, j] = demand_np[o]
            /\ \A k \in DOMAIN supply_np :
                  Reachable(o, k) => QLe(travel_np[o, j], travel_np[o, k])

(* C26: at initialisation and after every cycle the assignment matrix is   *)
(* positive only on pairs joined by a cost edge, and at initialisation     *)
(* each origin's whole demand is on its reachable destination of least     *)
(* travel cost.                                                            *)
C26_AssignedOnEdgesOnly ==
    InSolver =>
        /\ \A o \in DOMAIN demand_np : OnEdgesOnly(o)
        /\ (cycle_i = 0 => StartsAtNearest)

(* An origin that reaches some participating destination holds demand on   *)
(* edges only.                                                             *)
AssignedOnEdgesUnlessIsolated ==
    InSolver =>
        \A o \in DOMAIN demand_np :
            (\E j \in DOMAIN supply_np : Reachable(o, j)) => OnEdgesOnly(o)

(***************************************************************************)
(* The step budget of a cycle.                                             *)
(***************************************************************************)
CycleRan == pc \in {"loop", "done", "raised"} /\ locals # <<>>
LastCycle == cycle_i - 1
Decayed(c) == QMul(call.initial_step, HalfPower(c, call.half_life))
ClaimedBudget(c) == QMax(Decayed(c), call.min_step)
RoundedBudget(c) == QMax(Q(RoundHalfEven(Decayed(c))), call.min_step)
WithinBudget(step) ==
    \A o \in DOMAIN demand_np :
        QLe(Q(locals.delta[o]),
            IF call.is_float THEN QMul(step, Q(demand_np[o])) ELSE step)

Choosing(j) == {o \in DOMAIN demand_np : locals.min_locations[o] = j}
ProposedInto(j) == IntSum([o \in Choosing(j) |-> locals.delta_capped[o]])
ArrivingAt(j) == IntSum([o \in Choosing(j) |-> locals.delta[o]])
Flooded(j) == QLt(supply_np[j], Q(ProposedInto(j)))
Rescaling == LastCycle < call.limit_initial
ScaledDown(j) ==
    \A o \in Choosing(j) :
        locals.delta[o] =
            RoundHalfEven(QDiv(Q(locals.delta_capped[o]),
                               QDiv(Q(ProposedInto(j)), supply_np[j])))
AppliedUnchanged(j) == \A o \in Choosing(j) : locals.delta[o] = locals.delta_capped[o]
HalfPerOrigin(j) == Frac(Cardinality(Choosing(j)), 2)

(* C28: in a cycle c < limit_initial the transfers into a        *)
(* destination whose proposed total exceeds its capacity are scaled down   *)
(* by total / capacity so that what arrives does not exceed the capacity;  *)
(* other transfers are applied unchanged, and from cycle limit_initial on  *)
(* nothing is rescaled.                                                    *)
C28_AsClaimed ==
    CycleRan =>
        \A j \in DOMAIN supply_np :
            IF Rescaling /\ Flooded(j)
            THEN ScaledDown(j) /\ QLe(Q(ArrivingAt(j)), supply_np[j])
            ELSE AppliedUnchanged(j)

(* What the rescaling does ensure: in a cycle c < limit_initial the        *)
(* transfers into a destination whose proposed total exceeds its capacity  *)
(* are divided by total / capacity and rounded to the nearest whole        *)
(* number, so that what arrives exceeds the capacity by at most half a     *)
(* unit per origin choosing the destination; other transfers are applied   *)
(* unchanged, and from cycle limit_initial on nothing is rescaled.         *)
AntiFloodRounded ==
    CycleRan =>
        \A j \in DOMAIN supply_np :
            IF Rescaling /\ Flooded(j)
            THEN /\ ScaledDown(j)
                 /\ QLe(Q(ArrivingAt(j)), QAdd(supply_np[j], HalfPerOrigin(j)))
                 /\ \A o \in Choosing(j) : locals.delta[o] <= locals.delta_capped[o]
            ELSE AppliedUnchanged(j)

(* A cycle before limit_initial in which the transfers into a destination  *)
(* were cut, and yet more arrived than its capacity.                       *)
FloodExceedsCapacity ==
    /\ CycleRan /\ Rescaling
    /\ \E j \in DOMAIN supply_np :
          /\ Flooded(j)
          /\ ArrivingAt(j) < ProposedInto(j)
          /\ QLt(supply_np[j], Q(ArrivingAt(j)))

(* The cycle limit_initial itself: more is proposed into a destination     *)
(* than its capacity, and all of it is applied.                            *)
FloodNotRescaled ==
    /\ CycleRan /\ ~Rescaling
    /\ \E j \in DOMAIN supply_np : Flooded(j) /\ ArrivingAt(j) = ProposedInto(j)

(***************************************************************************)
(* The range of the two-stage values.                                      *)
(***************************************************************************)
TwoStageCalled == call.method \in {"2sfca", "e2sfca"}
FiniteNonNegative(v) == IsFinite(v) /\ ~QLt(v, Zero)

(* C29: with non-negative demand, supply and weights, every value          *)
(* two_stage_fca returns is a finite, non-negative number: a supply        *)
(* location whose aggregated demand is empty or zero contributes zero.     *)
C29_TwoStageFinite ==
    TwoStageCalled => \A o \in DOMAIN series : FiniteNonNegative(series[o])

(* The values are finite and non-negative where every supply location      *)
(* within reach has positive aggregated demand.                            *)
TwoStageFiniteOnPositiveDemand ==
    (TwoStageCalled /\ \A k \in DOMAIN demand_df : demand_df[k] > 0)
        => \A o \in DOMAIN series : FiniteNonNegative(series[o])

(***************************************************************************)
(* Partial coverage of the demand locations by the supply cost table.      *)
(***************************************************************************)
Unaccounted == DOMAIN demand_df \ Dests(cost_df)
Restrict(df, S) == [k \in DOMAIN df \cap S |-> df[k]]
RatioOnCovered(max_cost) ==
    fca_ratio(Restrict(demand_df, Dests(neighbor_cost_df)),
              Restrict(supply_df, Dests(cost_df)),
              neighbor_cost_df, cost_df, max_cost, NoWeight)

(* C21: when some demand location is not a destination of the supply cost  *)
(* table, fca_ratio warns and does not raise, and the series it returns is *)
(* the one computed from the locations that are both in the location       *)
(* tables and in the cost tables; without such a location it does not warn.*)
C21_PartialCoverageWarns ==
    RatioCalled =>
        /\ raised = ""
        /\ (Unaccounted # {}) <=>
               ("some tracts may be unaccounted for in supply_cost" \in warned)
        /\ series = RatioOnCovered(call.max_cost)

(* An fca_ratio call over a supply cost table that misses a demand         *)
(* location: the warning was given and a positive ratio is returned.       *)
C21_Witness ==
    /\ RatioCalled
    /\ Unaccounted # {}
    /\ warned # {}
    /\ \E o \in DOMAIN series : IsFinite(series[o]) /\ QLt(Zero, series[o])

(***************************************************************************)
(* The facade as an object: Access.__init__ over the frames a caller       *)
(* holds, then any calls of its measures, setters, append_user_cost,       *)
(* norm_access_df and score.                                               *)
(***************************************************************************)

(* The values an argument may hold, by Python type.                        *)
PyStr(x) == [type |-> "str", v |-> x]
PyList(x) == [type |-> "list", v |-> x]
PyInt(x) == [type |-> "int", v |-> x]
PyTrue == [type |-> "bool", v |-> TRUE]
PyFalse == [type |-> "bool", v |-> FALSE]
PyNone == [type |-> "NoneType"]

(* x is True *)
IsTrue(x) == x.type = "bool" /\ x.v
(* x == False: true of False and, by Python's equality, of 0 *)
EqualsFalse(x) == (x.type = "bool" /\ ~x.v) \/ (x.type = "int" /\ x.v = 0)
(* x in df.columns; hashing a list raises TypeError *)
IsColumn(x, columns) == x.type = "str" /\ x.v \in columns
AnyNotColumn(x, columns) == \E i \in DOMAIN x.v : x.v[i] \notin columns
InList(x, names) == \E i \in DOMAIN names : names[i] = x

(* The columns of the frames the caller holds.                             *)
DemandFrameColumns == {"geoid", "pop"}
SupplyFrameColumns == {"geoid", "value"}
CostFrameColumns == {"origin", "dest", "cost", "euclidean"}

(* Lines 146-206: the first check that fails, "" when none does.  The      *)
(* membership test of a list in the columns raises TypeError.              *)
NotAColumn(x, columns) ==
    IF x.type = "list" THEN "TypeError"
    ELSE IF IsColumn(x, columns) THEN "" ELSE "ValueError"
NameNotAColumn(x, columns) ==
    IF x.type = "str" /\ x.v \notin columns THEN "ValueError"
    ELSE IF x.type = "list" /\ AnyNotColumn(x, columns) THEN "ValueError"
    ELSE ""
FirstRaised(checks) ==
    IF \A i \in DOMAIN checks : checks[i] = "" THEN ""
    ELSE checks[CHOOSE i \in DOMAIN checks :
                    checks[i] # "" /\ \A k \in 1..(i - 1) : checks[k] = ""]
CostChecks(given, origin, dest, name) ==
    IF ~given THEN <<>>
    ELSE <<NotAColumn(origin, CostFrameColumns), NotAColumn(dest, CostFrameColumns),
           NameNotAColumn(name, CostFrameColumns)>>
DummyChecks(a) ==
    <<IF IsTrue(a.demand_index) THEN "" ELSE NotAColumn(a.demand_index, DemandFrameColumns),
      NotAColumn(a.demand_value, DemandFrameColumns),
      IF IsTrue(a.supply_index) THEN "" ELSE NotAColumn(a.supply_index, SupplyFrameColumns),
      NameNotAColumn(a.supply_value, SupplyFrameColumns)>>
    \o CostChecks(a.cost_df, a.cost_origin, a.cost_dest, a.cost_name)
    \o CostChecks(a.neighbor_cost_df, a.neighbor_cost_origin, a.neighbor_cost_dest,
                  a.neighbor_cost_name)

(* Lines 229-234: supply_types, after False was replaced by "value".       *)
SupplyTypes(supply_value) ==
    IF EqualsFalse(supply_value) THEN [raised |-> "", names |-> <<"value">>]
    ELSE IF supply_value.type = "str" THEN [raised |-> "", names |-> <<supply_value.v>>]
    ELSE IF supply_value.type = "list" THEN [raised |-> "", names |-> supply_value.v]
    ELSE [raised |-> "ValueError", names |-> <<>>]

(* Lines 239-260 and 262-286: the registered names and the default, which  *)
(* is names[0]; without a cost frame no name and no default attribute.     *)
RegisteredNames(given, name) ==
    IF ~given THEN [raised |-> "", names |-> <<>>, default |-> <<>>]
    ELSE IF name.type \notin {"str", "list"}
    THEN [raised |-> "ValueError", names |-> <<>>, default |-> <<>>]
    ELSE LET names == IF name.type = "str" THEN <<name.v>> ELSE name.v
         IN  IF names = <<>> THEN [raised |-> "IndexError", names |-> <<>>, default |-> <<>>]
             ELSE [raised |-> "", names |-> names, default |-> <<names[1]>>]

(* Access.__init__: the exception it raises, "" when the object is built.  *)
AccessInitRaised(a) ==
    FirstRaised(<<FirstRaised(DummyChecks(a)),
                  SupplyTypes(a.supply_value).raised,
                  RegisteredNames(a.cost_df, a.cost_name).raised,
                  RegisteredNames(a.neighbor_cost_df, a.neighbor_cost_name).raised>>)

(* The call the tests make: both cost names registered on the cost frame,  *)
(* the same frame given as the neighbour frame under the name "cost".      *)
GoodArgs ==
    [demand_index |-> PyTrue, demand_value |-> PyStr("pop"),
     supply_index |-> PyTrue, supply_value |-> PyStr("value"),
     cost_df |-> TRUE, cost_origin |-> PyStr("origin"), cost_dest |-> PyStr("dest"),
     cost_name |-> PyList(<<"cost", "euclidean">>),
     neighbor_cost_df |-> TRUE, neighbor_cost_origin |-> PyStr("origin"),
     neighbor_cost_dest |-> PyStr("dest"), neighbor_cost_name |-> PyStr("cost")]

IndexArgs == {PyStr("geoid"), PyStr("missing"), PyFalse, PyNone}
CostNameArgs ==
    {PyStr("cost"), PyStr("euclidean"), PyStr("missing"), PyList(<<"cost", "missing">>),
     PyList(<<>>), PyNone, PyInt(5)}

(* The constructor calls drawn: the call of the tests, and that call with  *)
(* one argument replaced or one cost frame left out.                       *)
ConstructorArgs ==
    {GoodArgs, [GoodArgs EXCEPT !.cost_df = FALSE],
     [GoodArgs EXCEPT !.neighbor_cost_df = FALSE]}
    \cup {[GoodArgs EXCEPT !.demand_index = x] : x \in IndexArgs}
    \cup {[GoodArgs EXCEPT !.supply_index = x] : x \in IndexArgs}
    \cup {[GoodArgs EXCEPT !.demand_value = x] :
            x \in {PyStr("missing"), PyNone, PyTrue}}
    \cup {[GoodArgs EXCEPT !.supply_value = x] :
            x \in {PyList(<<"value">>), PyFalse, PyInt(0), PyStr("missing"),
                   PyList(<<"missing">>), PyNone, PyTrue, PyInt(5)}}
    \cup {[GoodArgs EXCEPT !.cost_origin = x] : x \in {PyStr("missing"), PyNone}}
    \cup {[GoodArgs EXCEPT !.cost_dest = x] : x \in {PyStr("missing"), PyNone}}
    \cup {[GoodArgs EXCEPT !.neighbor_cost_origin = x] : x \in {PyStr("missing"), PyNone}}
    \cup {[GoodArgs EXCEPT !.neighbor_cost_dest = x] : x \in {PyStr("missing"), PyNone}}
    \cup {[GoodArgs EXCEPT !.cost_name = x] : x \in CostNameArgs}
    \cup {[GoodArgs EXCEPT !.neighbor_cost_name = x] : x \in CostNameArgs}

RaamLocalsKept ==
    UNCHANGED <<pc, demand_np, supply_np, travel_np, cycle_i, assignment, total_cost, locals>>

(* No Access object yet: access_df does not exist.                         *)
Built == access_df # <<>>

(* Access.__init__(a) over the frames the caller holds.  When it raises no *)
(* object results; otherwise lines 209-288 set the attributes: a supply    *)
(* column "value" of ones when supply_value == False, an empty cost frame  *)
(* when none was given, the registered names, access_df as the demand      *)
(* column.                                                                 *)
Construct(a) ==
    /\ ~Built
    /\ call = NoCall
    /\ call' = [method |-> "__init__", args |-> a]
    /\ raised' = AccessInitRaised(a)
    /\ IF AccessInitRaised(a) # ""
       THEN UNCHANGED <<demand_df, supply_df, cost_df, neighbor_cost_df, access_df,
                        cost_names, default_cost, neighbor_cost_names,
                        neighbor_default_cost, supply_value_provided>>
       ELSE /\ demand_df' = demand_df
            /\ supply_value_provided' = ~EqualsFalse(a.supply_value)
            /\ supply_df' = IF EqualsFalse(a.supply_value)
                            THEN [k \in DOMAIN supply_df |-> 1] ELSE supply_df
            /\ cost_df' = IF a.cost_df THEN cost_df ELSE {}
            /\ neighbor_cost_df' = IF a.neighbor_cost_df THEN neighbor_cost_df ELSE {}
            /\ cost_names' = RegisteredNames(a.cost_df, a.cost_name).names
            /\ default_cost' = RegisteredNames(a.cost_df, a.cost_name).default
            /\ neighbor_cost_names' =
                   RegisteredNames(a.neighbor_cost_df, a.neighbor_cost_name).names
            /\ neighbor_default_cost' =
                   RegisteredNames(a.neighbor_cost_df, a.neighbor_cost_name).default
            /\ access_df' = [c \in {"demand"} |-> IntTable(demand_df)]
    /\ UNCHANGED <<series, cost_G, ret, calls, warned>>
    /\ RaamLocalsKept

MaxCalls == 3

(* A cost argument: <<>> for None, <<name>> for a name.                    *)
NoName == <<>>
(* The cost frame read with the column c as its cost column.               *)
SelectCost(rows, c) ==
    {[origin |-> r.origin, dest |-> r.dest, cost |-> r[c]] : r \in rows}

(* helpers.sanitize_supply_cost: None stands for the default cost, whose   *)
(* attribute may not exist; a name that is not registered is rejected.     *)
sanitize_cost(cost, default, names) ==
    IF cost = NoName /\ default = <<>> THEN [raised |-> "AttributeError", cost |-> NoName]
    ELSE LET c == IF cost = NoName THEN default ELSE cost
         IN  [raised |-> IF InList(c[1], names) THEN "" ELSE "ValueError", cost |-> c]
sanitize_supply_cost(cost) == sanitize_cost(cost, default_cost, cost_names)
(* helpers.sanitize_demand_cost: the same over the neighbour names.        *)
sanitize_demand_cost(cost) ==
    sanitize_cost(cost, neighbor_default_cost, neighbor_cost_names)

Raises(e) == [raised |-> e, rs |-> <<>>]
Returns(rs) == [raised |-> "", rs |-> rs]

(* A facade call on the built object, one more call made.                  *)
FacadeCall(c) ==
    /\ Built
    /\ calls < MaxCalls
    /\ calls' = calls + 1
    /\ call' = c

(* The tail of a facade measure: when the call raised nothing is stored or *)
(* returned; otherwise the raw series is stored and a column returned.     *)
FacadeStore(name, r, normalize) ==
    /\ raised' = r.raised
    /\ IF r.raised # ""
       THEN series' = <<>> /\ ret' = <<>> /\ UNCHANGED access_df
       ELSE StoreAndReturn(name, r.rs, normalize)

(* Access.weighted_catchment, lines 348-379: supply_cost is checked, and   *)
(* line 361 passes cost_cost = self._default_cost to the engine.           *)
AccessWeightedCatchment(supply_cost, max_cost, weight_fn, normalize) ==
    /\ FacadeCall([method |-> "catchment", cost |-> supply_cost, max_cost |-> max_cost,
                   weight_fn |-> weight_fn, normalize |-> normalize])
    /\ FacadeStore("catchment",
            IF sanitize_supply_cost(supply_cost).raised # ""
            THEN Raises(sanitize_supply_cost(supply_cost).raised)
            ELSE IF default_cost = <<>> THEN Raises("AttributeError")
            ELSE Returns(weighted_catchment(IntTable(supply_df),
                                            SelectCost(cost_df, default_cost[1]),
                                            max_cost, "dest", "origin", weight_fn, FALSE)),
            normalize)
    /\ UNCHANGED <<demand_df, supply_df, cost_df, neighbor_cost_df, cost_G, cost_names,
                   default_cost, neighbor_cost_names, neighbor_default_cost,
                   supply_value_provided, warned>>
    /\ RaamLocalsKept

(* The assert the ratio measures and raam start with.                      *)
SupplyValueAsserted(r) == IF supply_value_provided THEN r ELSE Raises("AssertionError")

(* Access.fca_ratio, lines 476-519.                                        *)
AccessFcaRatio(supply_cost, demand_cost, max_cost, normalize) ==
    LET sc == sanitize_supply_cost(supply_cost)
        dc == sanitize_demand_cost(demand_cost)
        ok == supply_value_provided /\ sc.raised = "" /\ dc.raised = ""
    IN  /\ FacadeCall([method |-> "fca_ratio", cost |-> supply_cost,
                       demand_cost |-> demand_cost, max_cost |-> max_cost,
                       weight_fn |-> NoWeight, normalize |-> normalize])
        /\ FacadeStore("fca",
                SupplyValueAsserted(
                    IF sc.raised # "" THEN Raises(sc.raised)
                    ELSE IF dc.raised # "" THEN Raises(dc.raised)
                    ELSE Returns(fca_ratio(demand_df, supply_df,
                                           SelectCost(neighbor_cost_df, dc.cost[1]),
                                           SelectCost(cost_df, sc.cost[1]),
                                           max_cost, NoWeight))),
                normalize)
        /\ warned' = IF ok THEN warned \cup fca_ratio_warnings(demand_df, cost_df)
                     ELSE warned
        /\ UNCHANGED <<demand_df, supply_df, cost_df, neighbor_cost_df, cost_G, cost_names,
                       default_cost, neighbor_cost_names, neighbor_default_cost,
                       supply_value_provided>>
        /\ RaamLocalsKept

(* Access.two_stage_fca, lines 824-873.                                    *)
AccessTwoStageFca(cost, max_cost, normalize) ==
    LET sc == sanitize_supply_cost(cost)
    IN  /\ FacadeCall([method |-> "2sfca", cost |-> cost, max_cost |-> max_cost,
                       weight_fn |-> NoWeight, normalize |-> normalize])
        /\ FacadeStore("2sfca",
                SupplyValueAsserted(
                    IF sc.raised # "" THEN Raises(sc.raised)
                    ELSE Returns(two_stage_fca(demand_df, supply_df,
                                               SelectCost(cost_df, sc.cost[1]),
                                               max_cost, NoWeight))),
                normalize)
        /\ UNCHANGED <<demand_df, supply_df, cost_df, neighbor_cost_df, cost_G,
                       cost_names, default_cost, neighbor_cost_names,
                       neighbor_default_cost, supply_value_provided, warned>>
        /\ RaamLocalsKept

(* The W3 column three_stage_fca assigns to the frame it is given, the     *)
(* other columns kept.                                                     *)
AssignW3Column(rows, c, weight_fn) ==
    {[k \in DOMAIN r \cup {"W3"} |->
         IF k = "W3" THEN Weight(weight_fn, r[c]) ELSE r[k]] : r \in rows}

(* Access.three_stage_fca, lines 1109-1152, with the default weights; the  *)
(* W3 column lands in self.cost_df and in the neighbour frame where that   *)
(* is the same frame.                                                      *)
AccessThreeStageFca(cost, max_cost, normalize) ==
    LET sc == sanitize_supply_cost(cost)
        ok == supply_value_provided /\ sc.raised = ""
    IN  /\ FacadeCall([method |-> "3sfca", cost |-> cost, max_cost |-> max_cost,
                       weight_fn |-> ThreeStageDefaultWeight, normalize |-> normalize])
        /\ FacadeStore("3sfca",
                SupplyValueAsserted(
                    IF sc.raised # "" THEN Raises(sc.raised)
                    ELSE Returns(three_stage_fca(demand_df, supply_df,
                                                 SelectCost(cost_df, sc.cost[1]),
                                                 max_cost, ThreeStageDefaultWeight))),
                normalize)
        /\ IF ok
           THEN /\ cost_G' = PreferenceWeights(SelectCost(cost_df, sc.cost[1]),
                                               ThreeStageDefaultWeight)
                /\ cost_df' = AssignW3Column(cost_df, sc.cost[1], ThreeStageDefaultWeight)
                /\ neighbor_cost_df' =
                       IF neighbor_cost_df = cost_df
                       THEN AssignW3Column(cost_df, sc.cost[1], ThreeStageDefaultWeight)
                       ELSE neighbor_cost_df
           ELSE UNCHANGED <<cost_G, cost_df, neighbor_cost_df>>
        /\ UNCHANGED <<demand_df, supply_df, cost_names, default_cost, neighbor_cost_names,
                       neighbor_default_cost, supply_value_provided, warned>>
        /\ RaamLocalsKept

(* Access.raam, lines 666-704, with one cycle of the default float step;   *)
(* the whole of raam.raam runs inside the call.                            *)
FacadeRaamArgs == RaamArgsWith(1, FloatStep, NoRho, DefaultHalfLife)
AccessRaamCall(cost, normalize) ==
    LET sc == sanitize_supply_cost(cost)
    IN  /\ FacadeCall([method |-> "raam", cost |-> cost, normalize |-> normalize])
        /\ FacadeStore("raam",
                SupplyValueAsserted(
                    IF sc.raised # "" THEN Raises(sc.raised)
                    ELSE With(raam(demand_df, supply_df, SelectCost(cost_df, sc.cost[1]),
                                   FacadeRaamArgs),
                              LAMBDA r : IF r.raised # "" THEN Raises(r.raised)
                                         ELSE Returns(r.rs))),
                normalize)
        /\ UNCHANGED <<demand_df, supply_df, cost_df, neighbor_cost_df, cost_G,
                       cost_names, default_cost, neighbor_cost_names,
                       neighbor_default_cost, supply_value_provided, warned>>
        /\ RaamLocalsKept

(* A setter that takes any name.                                           *)
SetDefaultCostUnchecked(new_cost) ==
    /\ FacadeCall([method |-> "default_cost", cost |-> <<new_cost>>])
    /\ raised' = ""
    /\ default_cost' = <<new_cost>>
    /\ UNCHANGED <<demand_df, supply_df, cost_df, neighbor_cost_df, access_df, series,
                   cost_G, ret, cost_names, neighbor_cost_names, neighbor_default_cost,
                   supply_value_provided, warned>>
    /\ RaamLocalsKept

(* The default_cost setter, lines 1274-1282.                               *)
SetDefaultCost(new_cost) ==
    /\ FacadeCall([method |-> "default_cost", cost |-> <<new_cost>>])
    /\ IF InList(new_cost, cost_names)
       THEN raised' = "" /\ default_cost' = <<new_cost>>
       ELSE raised' = "ValueError" /\ UNCHANGED default_cost
    /\ UNCHANGED <<demand_df, supply_df, cost_df, neighbor_cost_df, access_df, series,
                   cost_G, ret, cost_names, neighbor_cost_names, neighbor_default_cost,
                   supply_value_provided, warned>>
    /\ RaamLocalsKept

(* The neighbor_default_cost setter, lines 1288-1296.                      *)
SetNeighborDefaultCost(new_cost) ==
    /\ FacadeCall([method |-> "neighbor_default_cost", cost |-> <<new_cost>>])
    /\ IF InList(new_cost, neighbor_cost_names)
       THEN raised' = "" /\ neighbor_default_cost' = <<new_cost>>
       ELSE raised' = "ValueError" /\ UNCHANGED neighbor_default_cost
    /\ UNCHANGED <<demand_df, supply_df, cost_df, neighbor_cost_df, access_df, series,
                   cost_G, ret, cost_names, default_cost, neighbor_cost_names,
                   supply_value_provided, warned>>
    /\ RaamLocalsKept

(* The frame append_user_cost is given: a cost "user" for every pair.      *)
UserCost == 20
UserCostRows == {[origin |-> o, dest |-> d, user |-> UserCost] : o \in Locs, d \in Locs}

(* Access.append_user_cost(new_cost_df, "origin", "dest", "user"), lines   *)
(* 1388-1395: the outer merge on the pair rebinds self.cost_df, and the    *)
(* name is registered.  It is called once on an object.                    *)
AppendUserCost ==
    /\ ~InList("user", cost_names)
    /\ FacadeCall([method |-> "append_user_cost", cost |-> <<"user">>])
    /\ raised' = ""
    /\ cost_df' = IF cost_df = {} THEN UserCostRows
                  ELSE {[k \in DOMAIN r \cup {"user"} |->
                            IF k = "user" THEN UserCost ELSE r[k]] : r \in cost_df}
    /\ cost_names' = Append(cost_names, "user")
    /\ UNCHANGED <<demand_df, supply_df, neighbor_cost_df, access_df, series, cost_G, ret,
                   default_cost, neighbor_cost_names, neighbor_default_cost,
                   supply_value_provided, warned>>
    /\ RaamLocalsKept

(* Lines 1155-1159: every column but the demand column divided, in the     *)
(* frame, by its demand-weighted mean.                                     *)
norm_access_df(df) ==
    [c \in DOMAIN df |-> IF c = "demand" THEN df[c] ELSE normalized_access(df, {c})[c]]

(* A read of Access.norm_access_df, lines 1153-1160.                       *)
NormAccessDf ==
    /\ FacadeCall([method |-> "norm_access_df"])
    /\ raised' = ""
    /\ access_df' = norm_access_df(access_df)
    /\ ret' = [c \in DOMAIN access_df \ {"demand"} |->
                  normalized_access(access_df, {c})[c]]
    /\ UNCHANGED <<demand_df, supply_df, cost_df, neighbor_cost_df, series, cost_G,
                   cost_names, default_cost, neighbor_cost_names, neighbor_default_cost,
                   supply_value_provided, warned>>
    /\ RaamLocalsKept

(* Series.dot of the normalised columns with the weights of col_dict.      *)
WeightedScore(df, col_dict) ==
    [i \in DOMAIN df["demand"] |->
        SumPlain([k \in DOMAIN col_dict |-> QMul(df[k][i], col_dict[k])])]

(* Access.score(col_dict, "score"), lines 1253-1268: a key that is not a   *)
(* column is rejected; the columns are read through norm_access_df and the *)
(* weighted sum is stored under the name.                                  *)
Score(col_dict) ==
    /\ FacadeCall([method |-> "score", col_dict |-> col_dict])
    /\ IF DOMAIN col_dict \subseteq DOMAIN access_df
       THEN /\ raised' = ""
            /\ ret' = WeightedScore(norm_access_df(access_df), col_dict)
            /\ access_df' = JoinColumn(norm_access_df(access_df), "score",
                                       WeightedScore(norm_access_df(access_df), col_dict))
       ELSE /\ raised' = "ValueError"
            /\ UNCHANGED <<access_df, ret>>
    /\ UNCHANGED <<demand_df, supply_df, cost_df, neighbor_cost_df, series, cost_G,
                   cost_names, default_cost, neighbor_cost_names, neighbor_default_cost,
                   supply_value_provided, warned>>
    /\ RaamLocalsKept

(* The frames the caller holds: a cost frame with every pair, the column   *)
(* "cost" small within a location and "euclidean" small across.            *)
FacadeCostRows ==
    {[origin |-> o, dest |-> d, cost |-> IF o = d THEN 20 ELSE 40,
      euclidean |-> IF o = d THEN 40 ELSE 20] : o \in Locs, d \in Locs}
FacadeDemands == {(1 :> 1) @@ (2 :> 3)}
FacadeSupplies == {(1 :> 1) @@ (2 :> 2), (2 :> 1)}

(* Before Access.__init__: the caller's frames and no object.              *)
InitFacadeObject ==
    /\ demand_df \in FacadeDemands
    /\ supply_df \in FacadeSupplies
    /\ cost_df = FacadeCostRows
    /\ neighbor_cost_df = cost_df
    /\ access_df = <<>>
    /\ series = <<>>
    /\ cost_G = {}
    /\ ret = <<>>
    /\ call = NoCall
    /\ cost_names = <<>>
    /\ default_cost = <<>>
    /\ neighbor_cost_names = <<>>
    /\ neighbor_default_cost = <<>>
    /\ supply_value_provided = TRUE
    /\ calls = 0
    /\ warned = {}
    /\ RaamIdle

(* The cost arguments drawn: None, the registered names, a name that is    *)
(* never registered and the name append_user_cost registers.               *)
CostArgs == {NoName, <<"cost">>, <<"euclidean">>, <<"missing">>, <<"user">>}
FacadeMaxCost == <<30>>
ScoreArgs ==
    {("fca_value" :> One), ("catchment_value" :> One),
     ("catchment_value" :> Frac(1, 2)) @@ ("fca_value" :> Frac(1, 2))}

NextFacade ==
    \/ \E a \in ConstructorArgs : Construct(a)
    \/ \E c \in CostArgs, n \in BOOLEAN :
            AccessWeightedCatchment(c, FacadeMaxCost, NoWeight, n)
    \/ \E c \in {NoName, <<"euclidean">>} :
            AccessWeightedCatchment(c, NoMaxCost, Gravity, FALSE)
    \/ \E c \in {NoName, <<"euclidean">>, <<"missing">>},
          d \in {NoName, <<"missing">>}, n \in BOOLEAN :
            AccessFcaRatio(c, d, FacadeMaxCost, n)
    \/ \E c \in {NoName, <<"euclidean">>, <<"missing">>} :
            AccessTwoStageFca(c, FacadeMaxCost, FALSE)
    \/ \E c \in {NoName, <<"euclidean">>, <<"missing">>} :
            AccessThreeStageFca(c, FacadeMaxCost, FALSE)
    \/ \E c \in {NoName, <<"euclidean">>, <<"missing">>} : AccessRaamCall(c, FALSE)
    \/ \E c \in {"cost", "euclidean", "missing", "user"} : SetDefaultCost(c)
    \/ \E c \in {"cost", "euclidean", "missing"} : SetNeighborDefaultCost(c)
    \/ AppendUserCost
    \/ NormAccessDf
    \/ \E w \in ScoreArgs : Score(w)

SpecFacade == InitFacadeObject /\ [][NextFacade]_vars

(***************************************************************************)
(* The cost column of Access.weighted_catchment.                           *)
(***************************************************************************)
CatchmentReturned == Built /\ call.method = "catchment" /\ raised = ""
CatchmentOver(c) ==
    weighted_catchment(IntTable(supply_df), SelectCost(cost_df, c), call.max_cost,
                       "dest", "origin", call.weight_fn, FALSE)

(* C22: Access.weighted_catchment(supply_cost=c) aggregates with the cost  *)
(* column c, for the max_cost cutoff and as the argument of the weight     *)
(* function; with supply_cost None it aggregates with the default cost.    *)
C22_CatchmentUsesSupplyCost ==
    CatchmentReturned =>
        series = CatchmentOver(IF call.cost = NoName THEN default_cost[1]
                               ELSE call.cost[1])

(* What the call aggregates with is the default cost column, whatever      *)
(* supply_cost names.                                                      *)
CatchmentUsesDefaultCost ==
    CatchmentReturned => series = CatchmentOver(default_cost[1])

(* A call with a registered supply_cost other than the default cost whose  *)
(* column would give another series.                                       *)
CatchmentIgnoresSupplyCost ==
    /\ CatchmentReturned
    /\ call.cost # NoName
    /\ call.cost # default_cost
    /\ series # CatchmentOver(call.cost[1])

(***************************************************************************)
(* A measure called again.                                                 *)
(***************************************************************************)
MeasureMethods == {"catchment", "fca_ratio", "2sfca", "3sfca", "raam"}
ColumnOf(method) == IF method = "fca_ratio" THEN "fca_value" ELSE method \o "_value"
MeasureReturns ==
    /\ Built
    /\ calls' = calls + 1
    /\ call'.method \in MeasureMethods
    /\ raised' = ""
OnDemandIndex(s) ==
    [i \in DOMAIN access_df["demand"] |-> IF i \in DOMAIN s THEN s[i] ELSE NaN]
ColumnReplaced(col) ==
    /\ DOMAIN access_df' = DOMAIN access_df \cup {col}
    /\ access_df'[col] = OnDemandIndex(series')
    /\ \A c \in DOMAIN access_df \ {col} : access_df'[c] = access_df[c]
SameCallAgain == call' = call /\ raised = ""

(* C23: a facade measure that returns leaves in access_df one column       *)
(* name_supply holding the values of this call, whether or not a column of *)
(* that name was there, and every other column as it was; the same call    *)
(* made again with the same arguments returns the same values.             *)
C23_MeasureReplacesColumn ==
    [][MeasureReturns =>
          /\ ColumnReplaced(ColumnOf(call'.method))
          /\ SameCallAgain => (series' = series /\ ret' = ret)]_vars

(* three_stage_fca was called, append_user_cost rebound the cost frame,    *)
(* and three_stage_fca was called again with another cost: the neighbour   *)
(* frame holds the W3 of the first call, the column the values of the      *)
(* second.                                                                 *)
C23_Witness ==
    /\ Built
    /\ call.method = "3sfca"
    /\ raised = ""
    /\ calls = 3
    /\ \E r \in cost_df : "user" \in DOMAIN r
    /\ \E r \in neighbor_cost_df : "W3" \in DOMAIN r
    /\ \E r \in neighbor_cost_df : \E x \in cost_df :
          x.origin = r.origin /\ x.dest = r.dest /\ x.W3 # r.W3
    /\ access_df["3sfca_value"] = OnDemandIndex(series)

(***************************************************************************)
(* Names that are not available.                                           *)
(***************************************************************************)
ConstructorCalled == call.method = "__init__"
IndexUnavailable(x, columns) == ~IsTrue(x) /\ ~IsColumn(x, columns)
NameUnavailable(x, columns) ==
    \/ x.type = "str" /\ x.v \notin columns
    \/ x.type = "list" /\ AnyNotColumn(x, columns)
NeitherStrNorList(x) == x.type \notin {"str", "list"}
CostUnavailable(given, origin, dest, name) ==
    given /\ (\/ ~IsColumn(origin, CostFrameColumns)
              \/ ~IsColumn(dest, CostFrameColumns)
              \/ NameUnavailable(name, CostFrameColumns))
AnyUnavailable(a) ==
    \/ IndexUnavailable(a.demand_index, DemandFrameColumns)
    \/ ~IsColumn(a.demand_value, DemandFrameColumns)
    \/ IndexUnavailable(a.supply_index, SupplyFrameColumns)
    \/ NameUnavailable(a.supply_value, SupplyFrameColumns)
    \/ CostUnavailable(a.cost_df, a.cost_origin, a.cost_dest, a.cost_name)
    \/ CostUnavailable(a.neighbor_cost_df, a.neighbor_cost_origin, a.neighbor_cost_dest,
                       a.neighbor_cost_name)
CostNameOfWrongType(a) ==
    \/ a.cost_df /\ NeitherStrNorList(a.cost_name)
    \/ a.neighbor_cost_df /\ NeitherStrNorList(a.neighbor_cost_name)
NoSupplyValue(a) == EqualsFalse(a.supply_value)

(* The constructor as claimed: any name argument that is neither a string  *)
(* nor a list is rejected.                                                 *)
ConstructorRejectsAsClaimed ==
    ConstructorCalled =>
        ((\/ AnyUnavailable(call.args)
          \/ CostNameOfWrongType(call.args)
          \/ NeitherStrNorList(call.args.supply_value)) => raised = "ValueError")

(* The constructor: ValueError exactly for an unavailable column, a cost   *)
(* name that is neither a string nor a list, and a supply_value that is    *)
(* neither and does not equal False; a supply_value equal to False builds  *)
(* the object without a supply value.                                      *)
ConstructorRejects ==
    ConstructorCalled =>
        /\ raised = "ValueError" <=>
              \/ AnyUnavailable(call.args)
              \/ CostNameOfWrongType(call.args)
              \/ NeitherStrNorList(call.args.supply_value) /\ ~NoSupplyValue(call.args)
        /\ Built <=> raised = ""
        /\ call.args = GoodArgs => Built
        /\ (Built /\ NoSupplyValue(call.args)) => ~supply_value_provided

SetterCalled ==
    /\ calls' = calls + 1
    /\ call'.method \in {"default_cost", "neighbor_default_cost"}
NamesOfSetter ==
    IF call'.method = "default_cost" THEN cost_names ELSE neighbor_cost_names
Rejected ==
    /\ raised' = "ValueError"
    /\ UNCHANGED <<default_cost, neighbor_default_cost, access_df>>
SetterRejects ==
    SetterCalled =>
        IF InList(call'.cost[1], NamesOfSetter)
        THEN /\ raised' = ""
             /\ IF call'.method = "default_cost" THEN default_cost' = call'.cost
                ELSE neighbor_default_cost' = call'.cost
        ELSE Rejected

MeasureCalled == calls' = calls + 1 /\ call'.method \in MeasureMethods
NamesUnregistered ==
    \/ call'.cost # NoName /\ ~InList(call'.cost[1], cost_names)
    \/ /\ call'.method = "fca_ratio"
       /\ call'.demand_cost # NoName
       /\ ~InList(call'.demand_cost[1], neighbor_cost_names)
AssertsSupplyValue == call'.method # "catchment" /\ ~supply_value_provided
MeasureRejectsAsClaimed ==
    MeasureCalled =>
        /\ NamesUnregistered => Rejected
        /\ ~NamesUnregistered => raised' # "ValueError"
NoDefaultToUse == call'.cost = NoName /\ default_cost = <<>>
RaisedInstead(e) ==
    /\ raised' = e
    /\ UNCHANGED <<default_cost, neighbor_default_cost, access_df>>
MeasureRejects ==
    MeasureCalled =>
        /\ (NamesUnregistered /\ ~AssertsSupplyValue /\ ~NoDefaultToUse) => Rejected
        /\ AssertsSupplyValue => RaisedInstead("AssertionError")
        /\ (NoDefaultToUse /\ ~AssertsSupplyValue) => RaisedInstead("AttributeError")
        /\ ~NamesUnregistered => raised' # "ValueError"

(* C24 as stated: the constructor raises ValueError when an index, value   *)
(* or cost column is not a column of the given frame or a name argument is *)
(* neither a string nor a list; the setters and the measures raise         *)
(* ValueError for a cost name that is not registered and leave the default *)
(* costs and access_df unchanged; a registered name, an appended one       *)
(* included, is accepted.                                                  *)
C24_AsClaimed ==
    /\ []ConstructorRejectsAsClaimed
    /\ [][SetterRejects /\ MeasureRejectsAsClaimed]_vars

(* C24: the constructor raises ValueError when an index, value or cost     *)
(* column is not a column of the given frame, when a cost name is neither  *)
(* a string nor a list, and when supply_value is neither and does not      *)
(* equal False; supply_value equal to False builds an object without a     *)
(* supply value.  The setters raise ValueError for a name that is not      *)
(* registered, and so do the measures, except that on an object without a  *)
(* supply value every measure but weighted_catchment raises AssertionError *)
(* first, and a measure called without a cost name on an object without a  *)
(* default cost raises AttributeError.  A rejected call leaves the default *)
(* costs and access_df unchanged; a registered name, an appended one       *)
(* included, is accepted.                                                  *)
C24_UnavailableNamesRejected ==
    /\ []ConstructorRejects
    /\ [][SetterRejects /\ MeasureRejects]_vars

(* The setter took the name append_user_cost registered.                   *)
C24_Witness ==
    /\ Built
    /\ call.method = "default_cost"
    /\ call.cost = <<"user">>
    /\ raised = ""
    /\ default_cost = <<"user">>

(* A measure asked for a name that is not registered and was rejected.     *)
MeasureRejectedName ==
    /\ Built
    /\ call.method = "2sfca"
    /\ call.cost = <<"missing">>
    /\ raised = "ValueError"
    /\ DOMAIN access_df = {"demand", "fca_value"}

(***************************************************************************)
(* Raw values in access_df.                                                *)
(***************************************************************************)
MeasureColumns == {ColumnOf(method) : method \in MeasureMethods}
ReadNormalized ==
    /\ Built
    /\ calls' = calls + 1
    /\ call'.method \in {"norm_access_df", "score"}
MeasureColumnsKept ==
    \A c \in DOMAIN access_df \cap MeasureColumns : access_df'[c] = access_df[c]
DemandColumnKept == Built => access_df'["demand"] = access_df["demand"]
RawStored == MeasureReturns => access_df'[ColumnOf(call'.method)] = OnDemandIndex(series')

(* C30: a measure call, with normalize True or False, stores the raw       *)
(* values of its series; a score call or a read of norm_access_df leaves   *)
(* every stored measure column as the latest measure call of that name set *)
(* it; no call changes the demand column.                                  *)
C30_RawValuesStay ==
    [][/\ RawStored
       /\ ReadNormalized => MeasureColumnsKept
       /\ DemandColumnKept]_vars

(* The measures store raw values and no call changes the demand column.    *)
MeasuresStoreRaw == [][RawStored /\ DemandColumnKept]_vars

(* After a read of norm_access_df the stored fca column is the normalised  *)
(* one, not the ratio the measure computed.                                *)
NormalizedStored ==
    /\ Built
    /\ call.method = "norm_access_df"
    /\ series # <<>>
    /\ "fca_value" \in DOMAIN access_df
    /\ DOMAIN access_df = {"demand", "fca_value"}
    /\ access_df["fca_value"] # OnDemandIndex(series)
    /\ access_df["fca_value"] = ret["fca_value"]

====
